---- MODULE Spec2Model ----
(***************************************************************************)
(* Model of the breakthroughIdeas showcase: the FileStorage wrapper around *)
(* localStorage, the UserSession identity and activity log, the in-memory  *)
(* rate-limit tracker, and the comment / rating / project-submission       *)
(* flows built on them.  Every await of a flow is a point where another    *)
(* tab of the same browser may run; one tab runs one handler at a time.    *)
(*                                                                         *)
(* Strings the code inspects (nicknames, stamps) are sequences of          *)
(* one-character strings; storage keys are TLA+ strings.                   *)
(***************************************************************************)
EXTENDS Integers, Sequences, FiniteSets, TLC

VARIABLES
    ls,        \* localStorage of the origin: physical key -> stored text
    lsFull,    \* environment: TRUE while localStorage.setItem throws
    clock,     \* Date.now()
    loaded,    \* per tab: "no", "stamp" (inside generateUserStamp), "yes"
    enabled,   \* per tab: userSession.storage.enabled
    stamp,     \* per tab: userSession.stamp
    nickname,  \* per tab: userSession.nickname (NoNick for null)
    userDetails, \* per tab: userSession.userDetails
    tracker,   \* per tab: window.rateLimitTracker
    fp,        \* per tab: browserData of the window (UTF-16 code units)
    flow,      \* per slot: the running handler, its position and locals
    outcome,   \* per slot, history: how the last handler ended
    attempt,   \* per tab, history: the latest rate-limit check
    nflows,    \* history: number of handlers started
    nticks,    \* history: number of clock advances
    nlog,      \* history: number of activity-log entries written
    api,       \* history: the last direct FileStorage call and its result
    shadow,    \* history: the map the FileStorage calls describe
    calc,      \* the display: the function last applied, its input, result
    cards,     \* window 1: the expanded cards and the suspended log calls
    sim,       \* the investment-bot page: options, intervals, pause flag
    suite      \* the trading suite: flags, sockets and reconnect timers

vars == <<ls, lsFull, clock, loaded, enabled, stamp, nickname, userDetails,
          tracker, fp, flow, outcome, attempt, nflows, nticks, nlog, api,
          shadow, calc, cards, sim, suite>>

(***************************************************************************)
(* Bounds of the model.                                                    *)
(***************************************************************************)
MaxFlows == 2
MaxTicks == 2
MaxLogCalls == 1050
MaxApiCalls == 4
LongLog == 995
StartTime == 10000

Tabs == {1, 2}
\* handlers in flight: a window runs one handler at a time, its awaits
\* resume in microtasks before the next event is dispatched
Slots == {1, 2}
TabOf(s) == s
Projects == {1}

(***************************************************************************)
(* config.js                                                               *)
(***************************************************************************)
COMMENT_COOLDOWN == 3000
RATING_COOLDOWN == 1000
PROJECT_COOLDOWN == 5000
MAX_COMMENT_LENGTH == 500
LOG_LIMIT == 1000

rateLimitTracker0 ==
    [lastCommentTime |-> 0, lastRatingTime |-> 0, lastProjectTime |-> 0]

(***************************************************************************)
(* JavaScript values that cross the storage boundary.                      *)
(***************************************************************************)
JsNull == [type |-> "null"]
JsArr(s) == [type |-> "array", items |-> s]
JsObj(r) == [type |-> "object", fields |-> r]

\* `x || []` as every reader of a list key writes it: null is the only
\* falsy value getItem returns
Falsy(v) == v.type = "null"
OrList(v) == IF Falsy(v) THEN JsArr(<<>>) ELSE v
IsArray(v) == v.type = "array"

\* JSON.stringify / JSON.parse: a stored text is either the JSON text of a
\* value or a raw string that is not JSON (a stamp, the probe string).
JSONstringify(v) == [json |-> v]
RawText(s) == [raw |-> s]
IsJson(text) == "json" \in DOMAIN text
JSONparse(text) == text.json

(***************************************************************************)
(* storage.js: FileStorage                                                 *)
(***************************************************************************)
prefix == "breakthroughIdeas_"

\* this.prefix + key, and the keys UserSession uses without the prefix:
\* a physical key is the pair of its prefix part and the rest
PKey(key) == <<prefix, key>>
RawKey(name) == <<"", name>>
startsWithPrefix(pkey) == pkey[1] = prefix

\* localStorage.getItem: null when the key is absent
HasItem(store, pkey) == pkey \in DOMAIN store

\* localStorage.setItem on a store that accepts the write
PutItem(store, pkey, text) ==
    [k \in DOMAIN store \cup {pkey} |-> IF k = pkey THEN text ELSE store[k]]

\* localStorage.removeItem
DropItem(store, pkey) == [k \in DOMAIN store \ {pkey} |-> store[k]]

\* checkStorageEnabled: the write/delete probe succeeds unless setItem throws
checkStorageEnabled(full) == ~full

ListDefaultKeys ==
    {"projects.system", "projects.user", "projects.allProjects",
     "users.allUsers", "users.userProjects", "logs._activity_logs"}
ObjectDefaultKeys == {"logs.rate_limits", "session.userDetails"}

\* (variant: a defaults table that falls back to the empty list)
getDefaults_listFallback(key) ==
    IF key \in ObjectDefaultKeys THEN JsObj(<<>>)
    ELSE IF key = "session.location" THEN JsObj([pending |-> 1])
    ELSE JsArr(<<>>)
getDefaults(key) ==
    IF key \in ListDefaultKeys THEN JsArr(<<>>)
    ELSE IF key \in ObjectDefaultKeys THEN JsObj(<<>>)
    ELSE IF key = "session.location" THEN JsObj([pending |-> 1])
    ELSE JsNull

getItem(en, store, key) ==
    IF ~en THEN getDefaults(key)
    ELSE IF ~HasItem(store, PKey(key)) THEN getDefaults(key)
    ELSE IF IsJson(store[PKey(key)]) THEN JSONparse(store[PKey(key)])
    ELSE getDefaults(key)

\* setItem: the boolean it returns, and the store it leaves
\* (variant: a setItem that does not look at `enabled`)
setItemOk_unguarded(en, full) == ~full
setItemOk(en, full) == en /\ ~full
\* (variant: a setItem that reports success without storing)
setItem_dropped(en, full, store, key, value) == store
setItem(en, full, store, key, value) ==
    IF setItemOk(en, full)
    THEN PutItem(store, PKey(key), JSONstringify(value))
    ELSE store

\* (variant: a removeItem that leaves the item in place)
removeItem_keeps(en, store, key) == store
removeItem(en, store, key) ==
    IF en THEN DropItem(store, PKey(key)) ELSE store

clear(en, store) ==
    IF en
    THEN [k \in {q \in DOMAIN store : ~startsWithPrefix(q)} |-> store[k]]
    ELSE store

(***************************************************************************)
(* UserSession: the stamp.  A 32-bit value is a pair of 16-bit halves.     *)
(***************************************************************************)
W16 == 65536

\* (variant: a round that multiplies by 33)
HashStep_times33(h, c) ==
    LET t == 33 * h.lo + c
    IN  [lo |-> t % W16, hi |-> (33 * h.hi + (t \div W16)) % W16]
\* one round of simpleHash: hash = ((hash << 5) - hash) + char; hash & hash
HashStep(h, c) ==
    LET t == 31 * h.lo + c
    IN  [lo |-> t % W16, hi |-> (31 * h.hi + (t \div W16)) % W16]

RECURSIVE HashFrom(_, _, _)
HashFrom(h, str, i) ==
    IF i > Len(str) THEN h
    ELSE LET next == HashStep(h, str[i])
         IN  \* the test has the round computed before the next one starts
             IF next.lo >= 0 THEN HashFrom(next, str, i + 1) ELSE next

\* Math.abs of the signed 32-bit value
MathAbs(h) ==
    IF h.hi < 32768 THEN h
    ELSE [lo |-> (W16 - h.lo) % W16,
          hi |-> (W16 - 1 - h.hi) + (IF h.lo = 0 THEN 1 ELSE 0)]

simpleHash(str) == MathAbs(HashFrom([lo |-> 0, hi |-> 0], str, 1))

Digits36 ==
    <<"0", "1", "2", "3", "4", "5", "6", "7", "8", "9", "a", "b", "c", "d",
      "e", "f", "g", "h", "i", "j", "k", "l", "m", "n", "o", "p", "q", "r",
      "s", "t", "u", "v", "w", "x", "y", "z">>
Upper36 ==
    <<"0", "1", "2", "3", "4", "5", "6", "7", "8", "9", "A", "B", "C", "D",
      "E", "F", "G", "H", "I", "J", "K", "L", "M", "N", "O", "P", "Q", "R",
      "S", "T", "U", "V", "W", "X", "Y", "Z">>

IsZero(h) == h.hi = 0 /\ h.lo = 0
Div36(h) ==
    LET t == (h.hi % 36) * W16 + h.lo
    IN  [q |-> [hi |-> h.hi \div 36, lo |-> t \div 36], r |-> t % 36]

\* Number.prototype.toString(36) of a non-negative integer
RECURSIVE ToString36Acc(_, _)
ToString36Acc(h, acc) ==
    IF IsZero(h) THEN acc
    ELSE ToString36Acc(Div36(h).q, <<Digits36[Div36(h).r + 1]>> \o acc)
toString36(h) == IF IsZero(h) THEN <<"0">> ELSE ToString36Acc(h, <<>>)

\* String.prototype.substring(0, n)
substring0(str, n) == SubSeq(str, 1, IF Len(str) < n THEN Len(str) ELSE n)

UpperChar(ch) ==
    IF \E i \in 1..36 : Digits36[i] = ch
    THEN Upper36[CHOOSE i \in 1..36 : Digits36[i] = ch]
    ELSE ch
toUpperCase(str) == [i \in 1..Len(str) |-> UpperChar(str[i])]

\* the stamp generateUserStamp computes for a fingerprint when none is stored
NewStamp(browserData) ==
    toUpperCase(substring0(toString36(simpleHash(browserData)), 6))

\* browserData of the two windows of the browser: userAgent + language +
\* screen.width + screen.height, as UTF-16 code units
Fingerprints ==
    { <<77, 111, 122>>,
      <<77, 111, 122, 105, 108, 108, 97, 47, 53, 46, 48, 101, 110, 49, 57,
        50, 48, 49, 48, 56, 48>> }

(***************************************************************************)
(* UserSession: the nickname                                               *)
(***************************************************************************)
NoNick == <<>>      \* this.nickname === null, and the empty input

RECURSIVE TrimLeft(_)
TrimLeft(str) ==
    IF str # <<>> /\ Head(str) = " " THEN TrimLeft(Tail(str)) ELSE str
RECURSIVE TrimRight(_)
TrimRight(str) ==
    IF str # <<>> /\ str[Len(str)] = " "
    THEN TrimRight(SubSeq(str, 1, Len(str) - 1)) ELSE str
trim(str) == TrimRight(TrimLeft(str))

\* JSON.parse(localStorage.getItem('allUsers') || '[]'): the raw key
existingUsers(store) ==
    IF HasItem(store, RawKey("allUsers")) /\ IsJson(store[RawKey("allUsers")])
    THEN JSONparse(store[RawKey("allUsers")]).items
    ELSE <<>>

ensureUniqueNickname(store, own, nick) ==
    LET baseNick == trim(nick)
        users == existingUsers(store)
    IN  IF ~\E i \in 1..Len(users) :
               users[i].nickname = baseNick /\ users[i].stamp # own
        THEN baseNick
        ELSE baseNick \o <<"#">> \o own

\* what setNickname returns and stores under the raw key userNickname
setNicknameStore(store, full, uniqueNick) ==
    IF full THEN store ELSE PutItem(store, RawKey("userNickname"), RawText(uniqueNick))

(***************************************************************************)
(* State after the scripts are parsed and before any page has loaded:      *)
(* empty localStorage of the origin, two windows of the browser.           *)
(***************************************************************************)
Idle == [pc |-> "idle"]
NoAttempt ==
    [n |-> 0, cls |-> "none", now |-> 0, prev |-> -1, allowed |-> TRUE,
     remaining |-> 0,
     last |-> [comment |-> -1, rating |-> -1, project |-> -1]]
NoCall == [tab |-> 0, op |-> "none", key |-> "", ret |-> JsNull, en |-> FALSE]
NoApi == [n |-> 0, last |-> NoCall, prev |-> NoCall]
NoCalc == [fn |-> "none", arg |-> <<>>, out |-> <<>>]
NoCards == [expanded |-> {}, jobs |-> <<>>, toggles |-> 0, collapses |-> 0,
            expands |-> 0]

\* the investment-bot page after generateMockInvestmentOptions: no option
\* runs, no interval, not paused
SimOptions == {1, 2}
SimStart ==
    [isPaused |-> FALSE,
     isRunning |-> [o \in SimOptions |-> FALSE],
     progress |-> [o \in SimOptions |-> 0],
     simulationIntervals |-> [o \in SimOptions |-> 0],
     timers |-> {}]

\* the fields the constructor of PionexTradingSuite sets; sockets holds the
\* state of every WebSocket created, timeouts the pending reconnect timers,
\* stopped (history) that a pause has stopped the data since the user last
\* started it
SuiteStart ==
    [isPaused |-> TRUE, isAnalysisRunning |-> FALSE, isDataLoading |-> FALSE,
     errorCount |-> 0, isLiveData |-> FALSE, isMockMode |-> FALSE,
     websocket |-> 0, mockInterval |-> FALSE, sockets |-> <<>>,
     timeouts |-> 0, fetches |-> 0, stopped |-> FALSE]

\* every variable but the display
InitState(full, prints) ==
    /\ ls = <<>>
    /\ lsFull = full
    /\ clock = StartTime
    /\ loaded = [t \in Tabs |-> "no"]
    /\ enabled = [t \in Tabs |-> FALSE]
    /\ stamp = [t \in Tabs |-> <<>>]
    /\ nickname = [t \in Tabs |-> NoNick]
    /\ userDetails = [t \in Tabs |-> <<>>]
    /\ tracker = [t \in Tabs |-> rateLimitTracker0]
    /\ fp \in [Tabs -> prints]
    /\ flow = [s \in Slots |-> Idle]
    /\ outcome = [s \in Slots |-> "none"]
    /\ attempt = [t \in Tabs |-> NoAttempt]
    /\ nflows = 0
    /\ nticks = 0
    /\ nlog = 0
    /\ api = NoApi
    /\ shadow = <<>>
    /\ cards = NoCards
    /\ sim = SimStart
    /\ suite = SuiteStart

InitWith(full, prints) == InitState(full, prints) /\ calc = NoCalc

Init == InitWith(FALSE, {<<77, 111, 122>>})

\* the passage of time between two steps
Ticks == {1, 2999}
Tick(d) ==
    /\ clock' = clock + d
    /\ nticks' = nticks + 1
    /\ UNCHANGED <<ls, lsFull, loaded, enabled, stamp, nickname, userDetails,
                   tracker, fp, calc, cards, sim, suite, flow, outcome, attempt, nflows, nlog, api,
                   shadow>>

(***************************************************************************)
(* UserSession.logActivity: the read up to its first await, then the push, *)
(* the cut to the last 1000 entries and the write.                         *)
(***************************************************************************)
LogsKey == "logs._activity_logs"

\* the flow position of a logActivity call made now; `ret` is where the
\* caller resumes
logActivityRead(t, store, action, data, ret) ==
    [pc |-> "log_write", act |-> action, dat |-> data, ret |-> ret,
     logs |-> OrList(getItem(enabled[t], store, LogsKey))]

\* (variant: an entry that does not carry the stamp)
logEntry_unstamped(t, f) ==
    [timestamp |-> clock, userStamp |-> <<>>, nickname |-> nickname[t],
     action |-> f.act, data |-> f.dat, seq |-> nlog + 1]
logEntry(t, f) ==
    [timestamp |-> clock, userStamp |-> stamp[t], nickname |-> nickname[t],
     action |-> f.act, data |-> f.dat, seq |-> nlog + 1]

\* (variant: a push without the cut)
LogPush_uncut(logs, entry) == Append(logs, entry)
\* logs.push(logEntry); if (logs.length > 1000) logs.splice(0, length - 1000)
LogPush(logs, entry) ==
    LET l == Append(logs, entry)
    IN  IF Len(l) > LOG_LIMIT
        THEN SubSeq(l, Len(l) - LOG_LIMIT + 1, Len(l))
        ELSE l

\* a handler suspended after an entity write calls logActivity
LogRead(s) ==
    /\ flow[s].pc = "log_read"
    /\ flow' = [flow EXCEPT ![s] =
           logActivityRead(TabOf(s), ls, flow[s].act, flow[s].dat,
                           flow[s].ret)]
    /\ UNCHANGED <<ls, lsFull, clock, loaded, enabled, stamp, nickname,
                   userDetails, tracker, fp, calc, cards, sim, suite, outcome, attempt, nflows,
                   nticks, nlog, api, shadow>>

LogWrite(s) ==
    /\ flow[s].pc = "log_write"
    /\ IsArray(flow[s].logs)
    /\ ls' = setItem(enabled[TabOf(s)], lsFull, ls, LogsKey,
                     JsArr(LogPush(flow[s].logs.items,
                                   logEntry(TabOf(s), flow[s]))))
    /\ nlog' = nlog + 1
    /\ flow' = [flow EXCEPT ![s] = flow[s].ret]
    /\ outcome' = IF flow[s].ret.pc = "idle"
                  THEN [outcome EXCEPT ![s] = "ok"] ELSE outcome
    /\ UNCHANGED <<lsFull, clock, loaded, enabled, stamp, nickname,
                   userDetails, tracker, fp, calc, cards, sim, suite, attempt, nflows, nticks, api,
                   shadow>>

\* collapseCard / toggleSessionLog: a UI event that only logs
LogEvent(s, action) ==
    /\ flow[s].pc = "idle"
    /\ loaded[TabOf(s)] = "yes"
    /\ flow' = [flow EXCEPT ![s] =
           logActivityRead(TabOf(s), ls, action, <<>>, Idle)]
    /\ nflows' = nflows + 1
    /\ UNCHANGED <<ls, lsFull, clock, loaded, enabled, stamp, nickname,
                   userDetails, tracker, fp, calc, cards, sim, suite, outcome, attempt, nticks, nlog,
                   api, shadow>>

(***************************************************************************)
(* Page load: new UserSession(), then DOMContentLoaded runs                *)
(* initializeStorageFiles.                                                 *)
(***************************************************************************)
RawItem(store, name, dflt) ==
    IF HasItem(store, RawKey(name)) THEN store[RawKey(name)].raw ELSE dflt

\* the rest of the constructor once this.stamp is known: nickname and
\* details from their raw keys, checkReturningUser, and the first
\* logActivity, which the constructor does not await
ConstructRest(s, store, st, en) ==
    LET t == TabOf(s)
        store2 == PutItem(store, RawKey("lastVisit"), RawText(clock))
        nick == RawItem(store, "userNickname", NoNick)
    IN  /\ stamp' = [stamp EXCEPT ![t] = st]
        /\ nickname' = [nickname EXCEPT ![t] = nick]
        /\ userDetails' = [userDetails EXCEPT ![t] =
               RawItem(store, "userDetails", <<>>)]
        /\ loaded' = [loaded EXCEPT ![t] = "yes"]
        /\ ls' = store2
        /\ flow' = [flow EXCEPT ![s] =
               [pc |-> "log_write", act |-> "session_initialized",
                dat |-> [isReturningUser |-> TRUE,
                         hasNickname |-> nick # NoNick],
                ret |-> [pc |-> "init_files", i |-> 1],
                logs |-> OrList(getItem(en, store2, LogsKey))]]

\* the page (re)loads: config.js resets the tracker, FileStorage probes the
\* store, generateUserStamp looks for a stored stamp.  With a store that
\* refuses writes the constructor throws and there is no session.
LoadPage(s) ==
    LET t == TabOf(s) IN
    /\ ~lsFull
    /\ loaded[t] # "stamp"
    /\ \A q \in Slots : TabOf(q) = t => flow[q].pc = "idle"
    /\ enabled' = [enabled EXCEPT ![t] = checkStorageEnabled(lsFull)]
    /\ tracker' = [tracker EXCEPT ![t] = rateLimitTracker0]
    /\ attempt' = [attempt EXCEPT ![t] = NoAttempt]
    /\ IF HasItem(ls, RawKey("userStamp"))
       THEN ConstructRest(s, ls, ls[RawKey("userStamp")].raw,
                          checkStorageEnabled(lsFull))
       ELSE /\ loaded' = [loaded EXCEPT ![t] = "stamp"]
            /\ flow' = [flow EXCEPT ![s] = [pc |-> "load_stamp"]]
            /\ UNCHANGED <<ls, stamp, nickname, userDetails>>
    /\ nflows' = IF loaded[t] = "no" THEN nflows ELSE nflows + 1
    /\ UNCHANGED <<lsFull, clock, fp, calc, cards, sim, suite, outcome, nticks, nlog, api, shadow>>

\* generateUserStamp found no stamp: hash the fingerprint and store it
LoadStamp(s) ==
    LET t == TabOf(s)
        st == NewStamp(fp[t])
    IN
    /\ flow[s].pc = "load_stamp"
    /\ ~lsFull
    /\ ConstructRest(s, PutItem(ls, RawKey("userStamp"), RawText(st)), st,
                     enabled[t])
    /\ UNCHANGED <<lsFull, clock, enabled, tracker, fp, calc, cards, sim, suite, outcome, attempt,
                   nflows, nticks, nlog, api, shadow>>

\* initializeStorageFiles: for each file key, read it and, when the read is
\* falsy, write the initial structure
InitKeys ==
    <<"users.users", "projects.userProjects", "comments.", "ratings.",
      "logs._activity_logs", "clicks.">>
InitData(i) ==
    CASE i = 1 -> JsObj([nickname |-> <<>>, allUsers |-> <<>>])
      [] i = 2 -> JsObj([userProjects |-> <<>>])
      [] i = 5 -> JsObj([_activity_logs |-> <<>>])
      [] OTHER -> JsObj(<<>>)

AfterInitKey(i) ==
    IF i = Len(InitKeys) THEN Idle ELSE [pc |-> "init_files", i |-> i + 1]

InitFiles(s) ==
    LET i == flow[s].i IN
    /\ flow[s].pc = "init_files"
    /\ flow' = [flow EXCEPT ![s] =
           IF Falsy(getItem(enabled[TabOf(s)], ls, InitKeys[i]))
           THEN [pc |-> "init_set", i |-> i]
           ELSE AfterInitKey(i)]
    /\ UNCHANGED <<ls, lsFull, clock, loaded, enabled, stamp, nickname,
                   userDetails, tracker, fp, calc, cards, sim, suite, outcome, attempt, nflows,
                   nticks, nlog, api, shadow>>

InitSet(s) ==
    LET i == flow[s].i IN
    /\ flow[s].pc = "init_set"
    /\ ls' = setItem(enabled[TabOf(s)], lsFull, ls, InitKeys[i], InitData(i))
    /\ flow' = [flow EXCEPT ![s] = AfterInitKey(i)]
    /\ UNCHANGED <<lsFull, clock, loaded, enabled, stamp, nickname,
                   userDetails, tracker, fp, calc, cards, sim, suite, outcome, attempt, nflows,
                   nticks, nlog, api, shadow>>

(***************************************************************************)
(* The rate-limit check every mutation handler starts with.                *)
(***************************************************************************)
\* if (now - rateLimitTracker.lastXTime < COOLDOWN) { alert; return; }
RateLimited(now, last, cooldown) == now - last < cooldown

\* the history record of a check made now for class cls
Checked(t, cls, last, cooldown) ==
    LET limited == RateLimited(clock, last, cooldown) IN
    [n |-> attempt[t].n + 1, cls |-> cls, now |-> clock,
     prev |-> attempt[t].last[cls],
     allowed |-> ~limited,
     remaining |-> IF limited THEN cooldown - (clock - last) ELSE 0,
     last |-> IF limited THEN attempt[t].last
              ELSE [attempt[t].last EXCEPT ![cls] = clock]]

CanStart(s) == flow[s].pc = "idle" /\ loaded[TabOf(s)] = "yes"

\* (variant: a rejection that is written to the activity log)
rejectAttempt_logged(s) ==
    /\ ls' = setItem(enabled[TabOf(s)], lsFull, ls, "logs._activity_logs",
                     JsArr(Append(OrList(getItem(enabled[TabOf(s)], ls,
                                  "logs._activity_logs")).items,
                                  [action |-> "rate_limited"])))
    /\ UNCHANGED <<nickname, userDetails, flow, outcome>>
\* the rate-limited branch: alert(`Please wait ...`); return
rejectAttempt(s) ==
    UNCHANGED <<ls, nickname, userDetails, flow, outcome>>

\* sanitizeInput: the five characters it replaces by entities
Entity(ch) ==
    CASE ch = "<" -> <<"&", "l", "t", ";">>
      [] ch = ">" -> <<"&", "g", "t", ";">>
      [] ch = "\"" -> <<"&", "q", "u", "o", "t", ";">>
      [] ch = "'" -> <<"&", "#", "3", "9", ";">>
      [] ch = "&" -> <<"&", "a", "m", "p", ";">>
      [] OTHER -> <<ch>>
\* the replacement is per character, so the halves are independent
RECURSIVE sanitizeInput(_)
sanitizeInput(str) ==
    IF str = <<>> THEN <<>>
    ELSE IF Len(str) = 1 THEN Entity(str[1])
    ELSE LET h == Len(str) \div 2
         IN  sanitizeInput(SubSeq(str, 1, h))
                 \o sanitizeInput(SubSeq(str, h + 1, Len(str)))

(***************************************************************************)
(* rating-functions.js: rateProject                                        *)
(***************************************************************************)
RatingsKey(p) == "ratings." \o ToString(p)
CommentsKey(p) == "comments." \o ToString(p)
ProjectsKey == "projects.userProjects"

\* loadProjects spreads both project lists: it throws when the user
\* projects value is not a list
loadProjectsThrows(t, store) ==
    \/ ~IsArray(OrList(getItem(enabled[t], store, "projects.allProjects")))
    \/ ~IsArray(OrList(getItem(enabled[t], store, ProjectsKey)))

RateStart(s, p, r) ==
    LET t == TabOf(s)
        chk == Checked(t, "rating", tracker[t].lastRatingTime,
                       RATING_COOLDOWN)
    IN
    /\ CanStart(s)
    /\ nflows' = nflows + 1
    /\ attempt' = [attempt EXCEPT ![t] = chk]
    /\ IF ~chk.allowed
       THEN rejectAttempt(s)
       ELSE /\ flow' = [flow EXCEPT ![s] =
                   [pc |-> "rate_write", now |-> clock, proj |-> p,
                    rating |-> r,
                    list |-> OrList(getItem(enabled[t], ls, RatingsKey(p)))]]
            /\ outcome' = [outcome EXCEPT ![s] = "running"]
            /\ UNCHANGED <<ls, nickname, userDetails>>
    /\ UNCHANGED <<lsFull, clock, loaded, enabled, stamp, tracker, fp, calc, cards, sim, suite,
                   nticks, nlog, api, shadow>>

\* ratings.push(rating); setItem; a push on a value that is no list throws
\* and the handler's catch reports the failure.  `saved` is the boolean
\* setItem returns, which the handler does not look at.
RateWrite(s) ==
    LET t == TabOf(s)
        f == flow[s]
        list == Append(f.list.items, f.rating)
    IN
    /\ f.pc = "rate_write"
    /\ IF IsArray(f.list)
       THEN /\ ls' = setItem(enabled[t], lsFull, ls, RatingsKey(f.proj),
                             JsArr(list))
            /\ flow' = [flow EXCEPT ![s] =
                   [pc |-> "log_read", act |-> "project_rated",
                    dat |-> [projectId |-> f.proj, rating |-> f.rating,
                             totalRatings |-> Len(list)],
                    ret |-> [pc |-> "rate_done", now |-> f.now,
                             saved |-> setItemOk(enabled[t], lsFull)]]]
            /\ UNCHANGED outcome
       ELSE /\ flow' = [flow EXCEPT ![s] = Idle]
            /\ outcome' = [outcome EXCEPT ![s] = "failed"]
            /\ UNCHANGED ls
    /\ UNCHANGED <<lsFull, clock, loaded, enabled, stamp, nickname,
                   userDetails, tracker, fp, calc, cards, sim, suite, attempt, nflows, nticks, nlog,
                   api, shadow>>

\* rateLimitTracker.lastRatingTime = now; await loadProjects(); notify
RateDone(s) ==
    LET t == TabOf(s) IN
    /\ flow[s].pc = "rate_done"
    /\ tracker' = [tracker EXCEPT ![t].lastRatingTime = flow[s].now]
    /\ flow' = [flow EXCEPT ![s] = Idle]
    /\ outcome' = [outcome EXCEPT ![s] =
           IF loadProjectsThrows(t, ls) THEN "failed" ELSE "ok"]
    /\ UNCHANGED <<ls, lsFull, clock, loaded, enabled, stamp, nickname,
                   userDetails, fp, calc, cards, sim, suite, attempt, nflows, nticks, nlog, api,
                   shadow>>

(***************************************************************************)
(* comment-functions.js: addComment (the fallback implementation, the one  *)
(* that runs: addCommentFromUtils is defined nowhere)                      *)
(***************************************************************************)
LongText == [i \in 1..(MAX_COMMENT_LENGTH + 1) |-> "x"]
CommentTexts == {<<" ", "<", "b">>, <<" ">>, LongText}
NickInputs == {<<>>, <<"A", "l", " ">>}

\* nickname && nickname !== userSession.nickname
NickChanged(t, nick) == nick # <<>> /\ nick # nickname[t]

\* (variant: a handler that starts from an empty list instead of reading)
commentRead_blind(t, store, p, text, nick) ==
    [pc |-> "cmt_write", proj |-> p,
     comment |-> [author |-> nick, stamp |-> stamp[t], text |-> text,
                  timestamp |-> clock],
     list |-> JsArr(<<>>)]
\* the comment object and the read of the project's list, up to the await
commentRead(t, store, p, text, nick) ==
    [pc |-> "cmt_write", proj |-> p,
     comment |-> [author |-> nick, stamp |-> stamp[t], text |-> text,
                  timestamp |-> clock],
     list |-> OrList(getItem(enabled[t], store, CommentsKey(p)))]

\* (variant: only the empty text is refused)
commentValid_nonempty(commentText) == commentText # <<>>
\* the validation: neither alert('Please enter a comment') nor
\* alert('Comment must not exceed ... characters')
commentValid(commentText) ==
    commentText # <<>> /\ Len(commentText) <= MAX_COMMENT_LENGTH

CommentStart(s, p, rawText, rawNick) ==
    LET t == TabOf(s)
        commentText == sanitizeInput(trim(rawText))
        nick == sanitizeInput(trim(rawNick))
        chk == Checked(t, "comment", tracker[t].lastCommentTime,
                       COMMENT_COOLDOWN)
        uniqueNick == ensureUniqueNickname(ls, stamp[t], nick)
    IN
    /\ CanStart(s)
    /\ IF ~commentValid(commentText)
       THEN /\ outcome' = [outcome EXCEPT ![s] = "refused"]
            /\ UNCHANGED <<ls, lsFull, clock, loaded, enabled, stamp,
                           nickname, userDetails, tracker, fp, calc, cards, sim, suite, flow,
                           attempt, nflows, nticks, nlog, api, shadow>>
       ELSE
         /\ nflows' = nflows + 1
         /\ attempt' = [attempt EXCEPT ![t] = chk]
         /\ IF ~chk.allowed
            THEN rejectAttempt(s)
            ELSE IF NickChanged(t, nick)
            THEN /\ nickname' = [nickname EXCEPT ![t] = uniqueNick]
                 /\ ls' = setNicknameStore(ls, lsFull, uniqueNick)
                 /\ flow' = [flow EXCEPT ![s] =
                        IF lsFull THEN Idle
                        ELSE [pc |-> "cmt_read", proj |-> p,
                              text |-> commentText, nick |-> nick]]
                 /\ outcome' = [outcome EXCEPT ![s] =
                        IF lsFull THEN "failed" ELSE "running"]
                 /\ UNCHANGED userDetails
            ELSE /\ flow' = [flow EXCEPT ![s] =
                        commentRead(t, ls, p, commentText, nick)]
                 /\ outcome' = [outcome EXCEPT ![s] = "running"]
                 /\ UNCHANGED <<ls, nickname, userDetails>>
         /\ UNCHANGED <<lsFull, clock, loaded, enabled, stamp, tracker, fp, calc, cards, sim, suite,
                        nticks, nlog, api, shadow>>

\* resumed after `await userSession.setNickname(nickname)`
CommentRead(s) ==
    LET f == flow[s] IN
    /\ f.pc = "cmt_read"
    /\ flow' = [flow EXCEPT ![s] =
           commentRead(TabOf(s), ls, f.proj, f.text, f.nick)]
    /\ UNCHANGED <<ls, lsFull, clock, loaded, enabled, stamp, nickname,
                   userDetails, tracker, fp, calc, cards, sim, suite, outcome, attempt, nflows,
                   nticks, nlog, api, shadow>>

\* comments.push(comment); setItem
CommentWrite(s) ==
    LET t == TabOf(s)
        f == flow[s]
    IN
    /\ f.pc = "cmt_write"
    /\ IF IsArray(f.list)
       THEN /\ ls' = setItem(enabled[t], lsFull, ls, CommentsKey(f.proj),
                             JsArr(Append(f.list.items, f.comment)))
            /\ flow' = [flow EXCEPT ![s] =
                   [pc |-> "log_read", act |-> "comment_added",
                    dat |-> [projectId |-> f.proj,
                             commentLength |-> Len(f.comment.text),
                             hasNickname |-> f.comment.author # <<>>,
                             nickname |-> f.comment.author],
                    ret |-> [pc |-> "cmt_done",
                             saved |-> setItemOk(enabled[t], lsFull)]]]
            /\ UNCHANGED outcome
       ELSE /\ flow' = [flow EXCEPT ![s] = Idle]
            /\ outcome' = [outcome EXCEPT ![s] = "failed"]
            /\ UNCHANGED ls
    /\ UNCHANGED <<lsFull, clock, loaded, enabled, stamp, nickname,
                   userDetails, tracker, fp, calc, cards, sim, suite, attempt, nflows, nticks, nlog,
                   api, shadow>>

\* rateLimitTracker.lastCommentTime = Date.now(), then the DOM update
CommentDone(s) ==
    /\ flow[s].pc = "cmt_done"
    /\ tracker' = [tracker EXCEPT ![TabOf(s)].lastCommentTime = clock]
    /\ flow' = [flow EXCEPT ![s] = Idle]
    /\ outcome' = [outcome EXCEPT ![s] = "ok"]
    /\ UNCHANGED <<ls, lsFull, clock, loaded, enabled, stamp, nickname,
                   userDetails, fp, calc, cards, sim, suite, attempt, nflows, nticks, nlog, api,
                   shadow>>

(***************************************************************************)
(* the consolidated comment system: deleteComment                          *)
(***************************************************************************)
DeleteIndexes == {0, 1}

\* comments.splice(commentIndex, 1) on a 0-based index
Splice1(list, idx) ==
    SubSeq(list, 1, idx) \o SubSeq(list, idx + 2, Len(list))

DeleteStart(s, p, idx) ==
    /\ CanStart(s)
    /\ nflows' = nflows + 1
    /\ flow' = [flow EXCEPT ![s] =
           [pc |-> "del_write", proj |-> p, idx |-> idx,
            list |-> OrList(getItem(enabled[TabOf(s)], ls, CommentsKey(p)))]]
    /\ outcome' = [outcome EXCEPT ![s] = "running"]
    /\ UNCHANGED <<ls, lsFull, clock, loaded, enabled, stamp, nickname,
                   userDetails, tracker, fp, calc, cards, sim, suite, attempt, nticks, nlog, api,
                   shadow>>

DeleteWrite(s) ==
    LET t == TabOf(s)
        f == flow[s]
    IN
    /\ f.pc = "del_write"
    /\ IF ~IsArray(f.list)
       THEN /\ flow' = [flow EXCEPT ![s] = Idle]
            /\ outcome' = [outcome EXCEPT ![s] = "failed"]
            /\ UNCHANGED ls
       ELSE IF f.idx < 0 \/ f.idx >= Len(f.list.items)
       THEN /\ flow' = [flow EXCEPT ![s] = Idle]
            /\ outcome' = [outcome EXCEPT ![s] = "invalid"]
            /\ UNCHANGED ls
       ELSE /\ ls' = setItem(enabled[t], lsFull, ls, CommentsKey(f.proj),
                             JsArr(Splice1(f.list.items, f.idx)))
            /\ flow' = [flow EXCEPT ![s] =
                   [pc |-> "log_read", act |-> "comment_deleted",
                    dat |-> [projectId |-> f.proj, commentIndex |-> f.idx,
                             commentLength |->
                                 Len(f.list.items[f.idx + 1].text)],
                    ret |-> [pc |-> "del_done"]]]
            /\ UNCHANGED outcome
    /\ UNCHANGED <<lsFull, clock, loaded, enabled, stamp, nickname,
                   userDetails, tracker, fp, calc, cards, sim, suite, attempt, nflows, nticks, nlog,
                   api, shadow>>

\* displayComments and the success notification
DeleteDone(s) ==
    /\ flow[s].pc = "del_done"
    /\ flow' = [flow EXCEPT ![s] = Idle]
    /\ outcome' = [outcome EXCEPT ![s] = "ok"]
    /\ UNCHANGED <<ls, lsFull, clock, loaded, enabled, stamp, nickname,
                   userDetails, tracker, fp, calc, cards, sim, suite, attempt, nflows, nticks, nlog,
                   api, shadow>>

(***************************************************************************)
(* main.js: the submit handler of userProjectForm, with                    *)
(* UserSession.saveUserDetails                                             *)
(***************************************************************************)
Anonymous == <<"A", "n", "o", "n", "y", "m", "o", "u", "s">>

\* { ...this.userDetails, ...details }
Merge(a, b) ==
    [k \in DOMAIN a \cup DOMAIN b |-> IF k \in DOMAIN b THEN b[k] ELSE a[k]]

\* the project object built after the details are saved
newProject(t) ==
    [id |-> clock,
     author |-> IF nickname[t] = NoNick THEN Anonymous ELSE nickname[t],
     authorStamp |-> stamp[t], timestamp |-> clock, type |-> "user"]

\* (variant: the project is pushed before the await and again after it)
projectRead_pushed(t, store, now) ==
    [pc |-> "prj_write", now |-> now, project |-> newProject(t),
     list |-> JsArr(Append(OrList(getItem(enabled[t], store,
                                          ProjectsKey)).items,
                           newProject(t)))]
\* project built, then the read of projects.userProjects up to its await
projectRead(t, store, now) ==
    [pc |-> "prj_write", now |-> now, project |-> newProject(t),
     list |-> OrList(getItem(enabled[t], store, ProjectsKey))]

\* from enhancedUserDetails to the next await: with an e-mail address
\* saveUserDetails merges and stores the details, without one the handler
\* goes on to the project
detailsStep(s, now, hasEmail) ==
    LET t == TabOf(s)
        details == [email |-> "e", timestamp |-> clock]
        merged == Merge(userDetails[t], details)
    IN  IF hasEmail
        THEN /\ userDetails' = [userDetails EXCEPT ![t] = merged]
             /\ ls' = setItem(enabled[t], lsFull, ls, "users.details",
                              JsObj(merged))
             /\ flow' = [flow EXCEPT ![s] =
                    [pc |-> "sud_read", now |-> now, details |-> details]]
        ELSE /\ flow' = [flow EXCEPT ![s] = projectRead(t, ls, now)]
             /\ UNCHANGED <<ls, userDetails>>

ProjectStart(s, rawNick, hasEmail) ==
    LET t == TabOf(s)
        nick == trim(rawNick)
        chk == Checked(t, "project", tracker[t].lastProjectTime,
                       PROJECT_COOLDOWN)
        uniqueNick == ensureUniqueNickname(ls, stamp[t], nick)
    IN
    /\ CanStart(s)
    /\ nflows' = nflows + 1
    /\ attempt' = [attempt EXCEPT ![t] = chk]
    /\ IF ~chk.allowed
       THEN rejectAttempt(s)
       ELSE IF NickChanged(t, nick)
       THEN /\ nickname' = [nickname EXCEPT ![t] = uniqueNick]
            /\ ls' = setNicknameStore(ls, lsFull, uniqueNick)
            /\ flow' = [flow EXCEPT ![s] =
                   IF lsFull THEN Idle
                   ELSE [pc |-> "prj_details", now |-> clock,
                         email |-> hasEmail]]
            /\ outcome' = [outcome EXCEPT ![s] =
                   IF lsFull THEN "failed" ELSE "running"]
            /\ UNCHANGED userDetails
       ELSE /\ detailsStep(s, clock, hasEmail)
            /\ outcome' = [outcome EXCEPT ![s] = "running"]
            /\ UNCHANGED nickname
    /\ UNCHANGED <<lsFull, clock, loaded, enabled, stamp, tracker, fp, calc, cards, sim, suite,
                   nticks, nlog, api, shadow>>

\* resumed after `await userSession.setNickname(nick)`
ProjectDetails(s) ==
    /\ flow[s].pc = "prj_details"
    /\ detailsStep(s, flow[s].now, flow[s].email)
    /\ UNCHANGED <<lsFull, clock, loaded, enabled, stamp, nickname, tracker,
                   fp, calc, cards, sim, suite, outcome, attempt, nflows, nticks, nlog, api, shadow>>

\* saveUserDetails: allUsers = await getItem('users.allUsers') || []
SudRead(s) ==
    /\ flow[s].pc = "sud_read"
    /\ flow' = [flow EXCEPT ![s] =
           [pc |-> "sud_write", now |-> flow[s].now,
            details |-> flow[s].details,
            users |->OrList(getItem(enabled[TabOf(s)], ls,
                                     "users.allUsers"))]]
    /\ UNCHANGED <<ls, lsFull, clock, loaded, enabled, stamp, nickname,
                   userDetails, tracker, fp, calc, cards, sim, suite, outcome, attempt, nflows,
                   nticks, nlog, api, shadow>>

\* the entry of this stamp is replaced in place, or appended
upsertUser(users, user) ==
    IF \E i \in 1..Len(users) : users[i].stamp = user.stamp
    THEN LET j == CHOOSE i \in 1..Len(users) :
                    /\ users[i].stamp = user.stamp
                    /\ \A k \in 1..(i - 1) : users[k].stamp # user.stamp
         IN  [users EXCEPT ![j] = user]
    ELSE Append(users, user)

SudWrite(s) ==
    LET t == TabOf(s)
        f == flow[s]
        user == [stamp |-> stamp[t], nickname |-> nickname[t],
                 details |-> userDetails[t], lastActive |-> clock]
    IN
    /\ f.pc = "sud_write"
    /\ IF IsArray(f.users)
       THEN /\ ls' = setItem(enabled[t], lsFull, ls, "users.allUsers",
                             JsArr(upsertUser(f.users.items, user)))
            /\ flow' = [flow EXCEPT ![s] =
                   [pc |-> "log_read", act |-> "user_details_saved",
                    dat |-> [details |-> f.details],
                    ret |-> [pc |-> "prj_read", now |-> f.now]]]
            /\ UNCHANGED outcome
       ELSE /\ flow' = [flow EXCEPT ![s] = Idle]
            /\ outcome' = [outcome EXCEPT ![s] = "failed"]
            /\ UNCHANGED ls
    /\ UNCHANGED <<lsFull, clock, loaded, enabled, stamp, nickname,
                   userDetails, tracker, fp, calc, cards, sim, suite, attempt, nflows, nticks, nlog,
                   api, shadow>>

\* resumed after `await userSession.saveUserDetails(...)`
ProjectRead(s) ==
    /\ flow[s].pc = "prj_read"
    /\ flow' = [flow EXCEPT ![s] = projectRead(TabOf(s), ls, flow[s].now)]
    /\ UNCHANGED <<ls, lsFull, clock, loaded, enabled, stamp, nickname,
                   userDetails, tracker, fp, calc, cards, sim, suite, outcome, attempt, nflows,
                   nticks, nlog, api, shadow>>

\* userProjects.push(project); setItem.  The push throws on a value that
\* is no list and the catch reports the failure.
ProjectWrite(s) ==
    LET t == TabOf(s)
        f == flow[s]
    IN
    /\ f.pc = "prj_write"
    /\ IF IsArray(f.list)
       THEN /\ ls' = setItem(enabled[t], lsFull, ls, ProjectsKey,
                             JsArr(Append(f.list.items, f.project)))
            /\ flow' = [flow EXCEPT ![s] =
                   [pc |-> "log_read", act |-> "project_shared",
                    dat |-> [projectId |-> f.project.id],
                    ret |-> [pc |-> "prj_done", now |-> f.now,
                             saved |-> setItemOk(enabled[t], lsFull)]]]
            /\ UNCHANGED outcome
       ELSE /\ flow' = [flow EXCEPT ![s] = Idle]
            /\ outcome' = [outcome EXCEPT ![s] = "failed"]
            /\ UNCHANGED ls
    /\ UNCHANGED <<lsFull, clock, loaded, enabled, stamp, nickname,
                   userDetails, tracker, fp, calc, cards, sim, suite, attempt, nflows, nticks, nlog,
                   api, shadow>>

\* rateLimitTracker.lastProjectTime = now; await loadProjects(); alert
ProjectDone(s) ==
    LET t == TabOf(s) IN
    /\ flow[s].pc = "prj_done"
    /\ tracker' = [tracker EXCEPT ![t].lastProjectTime = flow[s].now]
    /\ flow' = [flow EXCEPT ![s] = Idle]
    /\ outcome' = [outcome EXCEPT ![s] =
           IF loadProjectsThrows(t, ls) THEN "failed" ELSE "ok"]
    /\ UNCHANGED <<ls, lsFull, clock, loaded, enabled, stamp, nickname,
                   userDetails, fp, calc, cards, sim, suite, attempt, nflows, nticks, nlog, api,
                   shadow>>

(***************************************************************************)
(* storage.js used directly, as testStorageSystem does: each call of the   *)
(* FileStorage API is one step.  `api` remembers the last two calls and    *)
(* `shadow` the map they describe: the value of the latest setItem that    *)
(* returned true, until a removeItem or clear of an enabled instance.      *)
(***************************************************************************)
ApiKeys == {"comments.999", "logs._activity_logs", "test.storage.key"}
ApiValues == {JsArr(<<>>), JsArr(<<1>>), JsObj([test |-> "data"]), JsNull}
JsBool(b) == [type |-> "boolean", val |-> b]
JsUndefined == [type |-> "undefined"]

Called(t, op, key, ret) ==
    [n |-> api.n + 1,
     last |-> [tab |-> t, op |-> op, key |-> key, ret |-> ret,
               en |-> enabled[t]],
     prev |-> api.last]

\* new FileStorage(): the probe decides `enabled` for the instance's life
ApiConstruct(t) ==
    /\ enabled' = [enabled EXCEPT ![t] = checkStorageEnabled(lsFull)]
    /\ api' = Called(t, "new", "", JsUndefined)
    /\ UNCHANGED <<ls, lsFull, clock, loaded, stamp, nickname, userDetails,
                   tracker, fp, calc, cards, sim, suite, flow, outcome, attempt, nflows, nticks, nlog,
                   shadow>>

ApiGetItem(t, key) ==
    /\ api' = Called(t, "getItem", key, getItem(enabled[t], ls, key))
    /\ UNCHANGED <<ls, lsFull, clock, loaded, enabled, stamp, nickname,
                   userDetails, tracker, fp, calc, cards, sim, suite, flow, outcome, attempt, nflows,
                   nticks, nlog, shadow>>

ApiSetItem(t, key, value) ==
    /\ ls' = setItem(enabled[t], lsFull, ls, key, value)
    /\ api' = Called(t, "setItem", key, JsBool(setItemOk(enabled[t], lsFull)))
    /\ shadow' = IF setItemOk(enabled[t], lsFull)
                 THEN [k \in DOMAIN shadow \cup {key} |->
                          IF k = key THEN value ELSE shadow[k]]
                 ELSE shadow
    /\ UNCHANGED <<lsFull, clock, loaded, enabled, stamp, nickname,
                   userDetails, tracker, fp, calc, cards, sim, suite, flow, outcome, attempt, nflows,
                   nticks, nlog>>

ApiRemoveItem(t, key) ==
    /\ ls' = removeItem(enabled[t], ls, key)
    /\ api' = Called(t, "removeItem", key, JsUndefined)
    /\ shadow' = IF enabled[t]
                 THEN [k \in DOMAIN shadow \ {key} |-> shadow[k]]
                 ELSE shadow
    /\ UNCHANGED <<lsFull, clock, loaded, enabled, stamp, nickname,
                   userDetails, tracker, fp, calc, cards, sim, suite, flow, outcome, attempt, nflows,
                   nticks, nlog>>

ApiClear(t) ==
    /\ ls' = clear(enabled[t], ls)
    /\ api' = Called(t, "clear", "", JsUndefined)
    /\ shadow' = IF enabled[t] THEN <<>> ELSE shadow
    /\ UNCHANGED <<lsFull, clock, loaded, enabled, stamp, nickname,
                   userDetails, tracker, fp, calc, cards, sim, suite, flow, outcome, attempt, nflows,
                   nticks, nlog>>

\* the environment: the quota is reached (or storage is switched off), or
\* space is freed again
EnvFull(b) ==
    /\ lsFull # b
    /\ lsFull' = b
    /\ UNCHANGED <<ls, clock, loaded, enabled, stamp, nickname, userDetails,
                   tracker, fp, calc, cards, sim, suite, flow, outcome, attempt, nflows, nticks, nlog,
                   api, shadow>>

(***************************************************************************)
(* The application in one window: handlers run one after the other, time   *)
(* passes, the page can be reloaded.                                       *)
(***************************************************************************)
Ratings == {5}

\* the clock is read when a handler starts and when it ends: time passes
\* between handlers and before a handler's last step
TimePasses ==
    \A s \in Slots : flow[s].pc \in {"idle", "rate_done", "cmt_done"}

Loading(s) ==
    \/ (loaded[TabOf(s)] = "no" \/ nflows < MaxFlows) /\ LoadPage(s)
    \/ LoadStamp(s)
    \/ InitFiles(s)
    \/ InitSet(s)

Logging(s) ==
    \/ LogRead(s)
    \/ LogWrite(s)

Rating(s) ==
    \/ nflows < MaxFlows /\ \E p \in Projects, r \in Ratings :
           RateStart(s, p, r)
    \/ RateWrite(s)
    \/ RateDone(s)

Commenting(s) ==
    \/ nflows < MaxFlows /\ \E p \in Projects, x \in CommentTexts,
                               n \in NickInputs :
           CommentStart(s, p, x, n)
    \/ CommentRead(s)
    \/ CommentWrite(s)
    \/ CommentDone(s)

Deleting(s) ==
    \/ nflows < MaxFlows /\ \E p \in Projects, i \in DeleteIndexes :
           DeleteStart(s, p, i)
    \/ DeleteWrite(s)
    \/ DeleteDone(s)

Submitting(s) ==
    \/ nflows < MaxFlows /\ \E n \in NickInputs, e \in BOOLEAN :
           ProjectStart(s, n, e)
    \/ ProjectDetails(s)
    \/ SudRead(s)
    \/ SudWrite(s)
    \/ ProjectRead(s)
    \/ ProjectWrite(s)

Next ==
    \/ \E d \in Ticks : nticks < MaxTicks /\ TimePasses /\ Tick(d)
    \/ Loading(1)
    \/ Logging(1)
    \/ Rating(1)
    \/ Commenting(1)
    \/ Deleting(1)
    \/ Submitting(1)

Spec == Init /\ [][Next]_vars

(***************************************************************************)
(* Two windows of one browser over one localStorage: every await of a      *)
(* handler is a point where the other window may run.                      *)
(***************************************************************************)
NextTabs ==
    \E s \in Slots :
        \/ Loading(s)
        \/ Logging(s)
        \/ Rating(s)
        \/ Commenting(s)
        \/ Submitting(s)

InitTabs == InitWith(FALSE, Fingerprints) /\ fp[1] = <<77, 111, 122>>
SpecTabs == InitTabs /\ [][NextTabs]_vars

(***************************************************************************)
(* One window over a store that fills up and is freed again at any point   *)
(* after the constructor has run: every setItem of the handlers and of     *)
(* initializeStorageFiles can fail.                                        *)
(***************************************************************************)
NextQuota ==
    \/ \E b \in BOOLEAN : loaded[1] = "yes" /\ EnvFull(b)
    \/ loaded[1] = "no" /\ LoadPage(1)
    \/ LoadStamp(1)
    \/ InitFiles(1)
    \/ InitSet(1)
    \/ Logging(1)
    \/ Rating(1)
    \/ Commenting(1)
    \/ Submitting(1)
    \/ ProjectDone(1)

SpecQuota == Init /\ [][NextQuota]_vars

(***************************************************************************)
(* Two windows whose collections are lists: both pages have loaded while   *)
(* the store refused the write of projects.userProjects, so the key is     *)
(* absent and is read as the empty list.  SpecRaceSetup reaches the state  *)
(* (it violates RaceStartUnreached); SpecRace starts from it and runs the  *)
(* comment, rating, project and log flows of both windows, interleaved at  *)
(* every await.                                                            *)
(***************************************************************************)
RaceStore ==
    LET st == NewStamp(<<77, 111, 122>>)
        raw == PutItem(PutItem(<<>>, RawKey("userStamp"), RawText(st)),
                       RawKey("lastVisit"), RawText(StartTime))
        entry == [timestamp |-> StartTime, userStamp |-> st,
                  nickname |-> NoNick, action |-> "session_initialized",
                  data |-> [isReturningUser |-> TRUE, hasNickname |-> FALSE],
                  seq |-> 1]
        logged == setItem(TRUE, FALSE, raw, LogsKey, JsArr(<<entry>>))
        users == setItem(TRUE, FALSE, logged, InitKeys[1], InitData(1))
        comments == setItem(TRUE, FALSE, users, InitKeys[3], InitData(3))
        ratings == setItem(TRUE, FALSE, comments, InitKeys[4], InitData(4))
    IN  setItem(TRUE, FALSE, ratings, InitKeys[6], InitData(6))

RaceStart ==
    /\ ls = RaceStore
    /\ lsFull = FALSE
    /\ clock = StartTime
    /\ loaded = [t \in Tabs |-> "yes"]
    /\ enabled = [t \in Tabs |-> TRUE]
    /\ stamp = [t \in Tabs |-> NewStamp(<<77, 111, 122>>)]
    /\ nickname = [t \in Tabs |-> NoNick]
    /\ userDetails = [t \in Tabs |-> <<>>]
    /\ tracker = [t \in Tabs |-> rateLimitTracker0]
    /\ fp = [t \in Tabs |-> <<77, 111, 122>>]
    /\ flow = [s \in Slots |-> Idle]
    /\ outcome = [s \in Slots |-> "none"]
    /\ attempt = [t \in Tabs |-> NoAttempt]
    /\ nflows = 0
    /\ nticks = 0
    /\ nlog = 2
    /\ api = NoApi
    /\ shadow = <<>>
    /\ calc = NoCalc
    /\ cards = NoCards
    /\ sim = SimStart
    /\ suite = SuiteStart

NextRaceSetup ==
    \/ \E b \in BOOLEAN : (\A t \in Tabs : loaded[t] = "yes") /\ EnvFull(b)
    \/ \E s \in Slots :
        \/ loaded[TabOf(s)] = "no" /\ LoadPage(s)
        \/ LoadStamp(s)
        \/ InitFiles(s)
        \/ InitSet(s)
        \/ LogWrite(s)
SpecRaceSetup == InitWith(FALSE, {<<77, 111, 122>>}) /\ [][NextRaceSetup]_vars
RaceStartUnreached == ~RaceStart

NextRace ==
    \E s \in Slots :
        \/ nflows < MaxFlows /\ LogEvent(s, "session_log_opened")
        \/ Logging(s)
        \/ Rating(s)
        \/ Commenting(s)
        \/ Submitting(s)
        \/ ProjectDone(s)
SpecRace == RaceStart /\ [][NextRace]_vars

(***************************************************************************)
(* The project cards of window 1.  toggleCard calls collapseCard without   *)
(* awaiting it, so one click starts several logActivity calls: each reads  *)
(* the log before its first await, and their continuations run as          *)
(* microtasks, in the order of the calls, before the next click.           *)
(***************************************************************************)
MaxToggles == 4
CardIds == {1, 2, 3}

\* document.querySelectorAll('.project-card.expanded'), in document order
RECURSIVE InOrder(_)
InOrder(ids) ==
    IF ids = {} THEN <<>>
    ELSE LET m == CHOOSE x \in ids : \A y \in ids : x <= y
         IN  <<m>> \o InOrder(ids \ {m})

\* collapseCard up to the await inside logActivity('card_collapsed')
collapseCard(store) == logActivityRead(1, store, "card_collapsed", <<>>, Idle)
\* expandCard up to the await inside logActivity('card_expanded', ...)
expandCard(store, projectId) ==
    logActivityRead(1, store, "card_expanded",
                    [projectId |-> projectId, hasUrl |-> TRUE], Idle)

\* the calls one click on a collapsed card starts before it returns
toggleJobs(others, projectId) ==
    [i \in 1..Len(others) |-> collapseCard(ls)] \o <<expandCard(ls, projectId)>>

\* a click on card p
toggleCard(p) ==
    LET others == InOrder(cards.expanded \ {p}) IN
    /\ loaded[1] = "yes"
    /\ flow[1].pc = "idle"
    /\ cards.jobs = <<>>
    /\ cards.toggles < MaxToggles
    /\ cards' =
         IF p \in cards.expanded
         THEN [cards EXCEPT !.expanded = @ \ {p},
                            !.jobs = <<collapseCard(ls)>>,
                            !.toggles = @ + 1,
                            !.collapses = @ + 1]
         ELSE [cards EXCEPT !.expanded = {p},
                            !.jobs = toggleJobs(others, p),
                            !.toggles = @ + 1,
                            !.collapses = @ + Len(others),
                            !.expands = @ + 1]
    /\ UNCHANGED <<ls, lsFull, clock, loaded, enabled, stamp, nickname,
                   userDetails, tracker, fp, calc, sim, suite, flow, outcome, attempt,
                   nflows, nticks, nlog, api, shadow>>

\* the next microtask: the rest of the logActivity call that has waited
\* longest, i.e. the push, the cut and the write
RunJob ==
    LET f == Head(cards.jobs) IN
    /\ cards.jobs # <<>>
    /\ IsArray(f.logs)
    /\ ls' = setItem(enabled[1], lsFull, ls, LogsKey,
                     JsArr(LogPush(f.logs.items, logEntry(1, f))))
    /\ nlog' = nlog + 1
    /\ cards' = [cards EXCEPT !.jobs = Tail(@)]
    /\ UNCHANGED <<lsFull, clock, loaded, enabled, stamp, nickname,
                   userDetails, tracker, fp, calc, sim, suite, flow, outcome, attempt,
                   nflows, nticks, api, shadow>>

NextCards ==
    \/ loaded[1] = "no" /\ LoadPage(1)
    \/ LoadStamp(1)
    \/ InitFiles(1)
    \/ InitSet(1)
    \/ LogWrite(1)
    \/ \E p \in CardIds : toggleCard(p)
    \/ RunJob
SpecCards == Init /\ [][NextCards]_vars

(***************************************************************************)
(* The FileStorage API on its own: two instances over one store that the   *)
(* environment can fill up and free.                                       *)
(***************************************************************************)
InitStore ==
    /\ ls = PutItem(<<>>, RawKey("userStamp"), RawText(<<"S">>))
    /\ lsFull \in BOOLEAN
    /\ enabled = [t \in Tabs |-> checkStorageEnabled(lsFull)]
    /\ clock = StartTime
    /\ loaded = [t \in Tabs |-> "no"]
    /\ stamp = [t \in Tabs |-> <<>>]
    /\ nickname = [t \in Tabs |-> NoNick]
    /\ userDetails = [t \in Tabs |-> <<>>]
    /\ tracker = [t \in Tabs |-> rateLimitTracker0]
    /\ fp = [t \in Tabs |-> <<77>>]
    /\ flow = [s \in Slots |-> Idle]
    /\ outcome = [s \in Slots |-> "none"]
    /\ attempt = [t \in Tabs |-> NoAttempt]
    /\ nflows = 0
    /\ nticks = 0
    /\ nlog = 0
    /\ api = NoApi
    /\ shadow = <<>>
    /\ calc = NoCalc
    /\ cards = NoCards
    /\ sim = SimStart
    /\ suite = SuiteStart

NextStore ==
    \/ \E b \in BOOLEAN : EnvFull(b)
    \/ \E t \in Tabs :
         /\ api.n < MaxApiCalls
         /\ \/ ApiConstruct(t)
            \/ \E k \in ApiKeys : ApiGetItem(t, k)
            \/ \E k \in ApiKeys, v \in ApiValues : ApiSetItem(t, k, v)
            \/ \E k \in ApiKeys : ApiRemoveItem(t, k)
            \/ ApiClear(t)

SpecStore == InitStore /\ [][NextStore]_vars

(***************************************************************************)
(* One window that only logs: the activity log under a single writer.      *)
(***************************************************************************)
LogActions == {"card_collapsed"}

NextLog ==
    \/ loaded[1] = "no" /\ LoadPage(1)
    \/ LoadStamp(1)
    \/ InitFiles(1)
    \/ InitSet(1)
    \/ nlog < MaxLogCalls /\ flow[1].pc = "idle" /\
           \E a \in LogActions : LogEvent(1, a)
    \/ LogWrite(1)

\* the log after n appends of one session that started at StartTime: the
\* session_initialized entry of the constructor, then n - 1 UI events
LogAfter(n) ==
    [i \in 1..n |->
        [timestamp |-> StartTime, userStamp |-> NewStamp(<<77, 111, 122>>),
         nickname |-> NoNick,
         action |-> IF i = 1 THEN "session_initialized"
                    ELSE "card_collapsed",
         data |-> IF i = 1
                  THEN [isReturningUser |-> TRUE, hasNickname |-> FALSE]
                  ELSE <<>>,
         seq |-> i]]

\* the store after the page load and n appends
StoreAfter(n) ==
    LET st == NewStamp(<<77, 111, 122>>)
        raw == PutItem(PutItem(<<>>, RawKey("userStamp"), RawText(st)),
                       RawKey("lastVisit"), RawText(StartTime))
        logged == setItem(TRUE, FALSE, raw, LogsKey, JsArr(LogAfter(n)))
        k1 == setItem(TRUE, FALSE, logged, InitKeys[1], InitData(1))
        k2 == setItem(TRUE, FALSE, k1, InitKeys[2], InitData(2))
        k3 == setItem(TRUE, FALSE, k2, InitKeys[3], InitData(3))
        k4 == setItem(TRUE, FALSE, k3, InitKeys[4], InitData(4))
    IN  setItem(TRUE, FALSE, k4, InitKeys[6], InitData(6))

\* the window of InitWith after its page load and n appends, idle; a state
\* SpecLogEmpty reaches (it violates LongSessionUnreached), taken as a
\* second starting point so that the runs across the cap are short
LongSession(n) ==
    /\ ls = StoreAfter(n)
    /\ lsFull = FALSE
    /\ clock = StartTime
    /\ loaded = [t \in Tabs |-> IF t = 1 THEN "yes" ELSE "no"]
    /\ enabled = [t \in Tabs |-> t = 1]
    /\ stamp = [t \in Tabs |->
                  IF t = 1 THEN NewStamp(<<77, 111, 122>>) ELSE <<>>]
    /\ nickname = [t \in Tabs |-> NoNick]
    /\ userDetails = [t \in Tabs |-> <<>>]
    /\ tracker = [t \in Tabs |-> rateLimitTracker0]
    /\ fp = [t \in Tabs |-> <<77, 111, 122>>]
    /\ flow = [s \in Slots |-> Idle]
    /\ outcome = [s \in Slots |-> IF s = 1 THEN "ok" ELSE "none"]
    /\ attempt = [t \in Tabs |-> NoAttempt]
    /\ nflows = n - 1
    /\ nticks = 0
    /\ nlog = n
    /\ api = NoApi
    /\ shadow = <<>>
    /\ calc = NoCalc
    /\ cards = NoCards
    /\ sim = SimStart
    /\ suite = SuiteStart

InitLog == InitWith(FALSE, {<<77, 111, 122>>}) \/ LongSession(LongLog)
SpecLog == InitLog /\ [][NextLog]_vars

SpecLogEmpty == InitWith(FALSE, {<<77, 111, 122>>}) /\ [][NextLog]_vars
LongSessionUnreached == ~LongSession(LongLog)

(***************************************************************************)
(* The built-in example projects and populateExampleProjects, which        *)
(* part_000 defines and exports and which no handler or load step calls.   *)
(***************************************************************************)
projects ==
    <<[id |-> 1, title |-> "AI-Powered Code Generator"],
      [id |-> 2, title |-> "Quantum Visualization Engine"],
      [id |-> 3, title |-> "Blockchain Social Network"],
      [id |-> 4, title |-> "Neural Network Playground"]>>

SystemProjectsKey == "projects.allProjects"

\* projects.map(...): the stored form of the examples
exampleProjects ==
    [i \in DOMAIN projects |->
        [id |-> projects[i].id, title |-> projects[i].title,
         author |-> "System", stamp |-> "SYSTEM"]]

\* populateExampleProjects, called in window 1: when no example is stored
\* it stores the examples and then writes the activity log
populateExampleProjects ==
    LET existingProjects == OrList(getItem(enabled[1], ls, SystemProjectsKey))
        seeded == setItem(enabled[1], lsFull, ls, SystemProjectsKey,
                          JsArr(exampleProjects))
    IN
    /\ loaded[1] = "yes"
    /\ flow[1].pc = "idle"
    /\ cards.jobs = <<>>
    /\ IsArray(existingProjects)
    /\ Len(existingProjects.items) = 0
    /\ ls' = setItem(enabled[1], lsFull, seeded, LogsKey,
                     JsArr(<<[action |-> "system_populate_examples",
                              timestamp |-> clock,
                              details |-> Len(exampleProjects)]>>))
    /\ UNCHANGED <<lsFull, clock, loaded, enabled, stamp, nickname,
                   userDetails, tracker, fp, calc, cards, sim, suite, flow, outcome,
                   attempt, nflows, nticks, nlog, api, shadow>>

\* one window with its cards and the seeding
NextSeed ==
    \/ NextCards
    \/ populateExampleProjects
SpecSeed == Init /\ [][NextSeed]_vars

(***************************************************************************)
(* The rating display: getAverageRating (rating-functions.js) and the      *)
(* same expression inlined in createProjectCard.                           *)
(***************************************************************************)
\* ratings.reduce((a, b) => a + b, 0)
RECURSIVE reduceSum(_)
reduceSum(r) == IF r = <<>> THEN 0 ELSE r[1] + reduceSum(Tail(r))

\* the number of significant bits of the integer part of a quotient
BitLen(i) == IF i < 2 THEN 1 ELSE IF i < 4 THEN 2 ELSE IF i < 8 THEN 3 ELSE 4

\* long division of rem / n by `bits` further binary digits: the remainder
\* left and the last digit produced
RECURSIVE DivBits(_, _, _, _)
DivBits(rem, n, bits, last) ==
    IF bits = 0 THEN [rem |-> rem, last |-> last]
    ELSE DivBits((2 * rem) % n, n, bits - 1, (2 * rem) \div n)

\* p / n as an IEEE double (53 significant bits, round to nearest, ties to
\* even), for 1 <= p / n < 16: the sign of (double - exact quotient)
DoubleError(p, n) ==
    LET i == p \div n
        d == DivBits(p % n, n, 53 - BitLen(i), i % 2)
    IN  IF d.rem = 0 THEN 0
        ELSE IF 2 * d.rem < n THEN -1
        ELSE IF 2 * d.rem > n THEN 1
        ELSE IF d.last = 0 THEN -1 ELSE 1

DecDigits == <<"0", "1", "2", "3", "4", "5", "6", "7", "8", "9">>

\* (variant: the tenths are cut off, not rounded)
toFixed1_truncated(p, n) ==
    LET k == (10 * p) \div n
    IN  <<DecDigits[(k \div 10) + 1], ".", DecDigits[(k % 10) + 1]>>
\* (p / n).toFixed(1): the tenths nearest to the double, the larger of two
\* equally near.  The double is nearer to the exact quotient than any
\* quotient with so small a divisor is to a midpoint it does not sit on, so
\* only at a midpoint does the error of the division decide.
toFixed1(p, n) ==
    LET k == (10 * p) \div n
        rem == 10 * p - k * n
        up == \/ 2 * rem > n
              \/ 2 * rem = n /\ DoubleError(p, n) >= 0
        m == IF up THEN k + 1 ELSE k
    IN  <<DecDigits[(m \div 10) + 1], ".", DecDigits[(m % 10) + 1]>>

NA == <<"N", "/", "A">>

\* rating-functions.js
getAverageRating(ratings) ==
    IF Len(ratings) = 0 THEN NA
    ELSE toFixed1(reduceSum(ratings), Len(ratings))

\* createProjectCard: ratings.length ? (...).toFixed(1) : 'N/A'
cardAverage(ratings) ==
    IF Len(ratings) # 0 THEN toFixed1(reduceSum(ratings), Len(ratings))
    ELSE NA

\* the lists shown: every list of up to MaxRatings stars, and lists of
\* LongRatings stars of two neighbouring values
MaxRatings == 3
LongRatings == 20
Stars == 1..5
TwoStars(a, hi) == [i \in 1..LongRatings |-> IF i <= a THEN hi ELSE hi - 1]
RatingLists ==
    UNION {[1..n -> Stars] : n \in 0..MaxRatings}
    \cup {TwoStars(a, hi) : a \in 0..LongRatings, hi \in 2..5}

\* createStarRatingHTML / updateRatingDisplay show the average of a list
ShowAverage ==
    /\ calc.fn = "none"
    /\ calc' = [calc EXCEPT !.fn = "getAverageRating",
                            !.out = getAverageRating(calc.arg)]
    /\ UNCHANGED <<ls, lsFull, clock, loaded, enabled, stamp, nickname,
                   userDetails, tracker, fp, cards, sim, suite, flow, outcome, attempt, nflows,
                   nticks, nlog, api, shadow>>

\* createProjectCard shows the average on the card
ShowCardAverage ==
    /\ calc.fn = "none"
    /\ calc' = [calc EXCEPT !.fn = "createProjectCard",
                            !.out = cardAverage(calc.arg)]
    /\ UNCHANGED <<ls, lsFull, clock, loaded, enabled, stamp, nickname,
                   userDetails, tracker, fp, cards, sim, suite, flow, outcome, attempt, nflows,
                   nticks, nlog, api, shadow>>

InitAvg ==
    /\ InitState(FALSE, {<<77, 111, 122>>})
    /\ calc \in {[fn |-> "none", arg |-> r, out |-> <<>>] : r \in RatingLists}
NextAvg == ShowAverage \/ ShowCardAverage
SpecAvg == InitAvg /\ [][NextAvg]_vars

(***************************************************************************)
(* Comment grouping: groupCommentsByDateAndUser of utils/date-formater.js, *)
(* of the card renderer and of the main module.  A timestamp is the        *)
(* instant in ms counted from 2025-01-30T00:00Z; the viewer's time zone    *)
(* is its offset from UTC in hours.                                        *)
(***************************************************************************)
MaxComments == 3

\* the local calendar day of an instant: 0 is Thu Jan 30 2025
LocalDay(ts, tz) == (ts + tz * 3600000) \div (24 * 3600000)
Weekdays == <<<<"T", "h", "u">>, <<"F", "r", "i">>, <<"S", "a", "t">>,
              <<"S", "u", "n">>, <<"M", "o", "n">>>>
MonthOf(d) == IF d < 2 THEN 1 ELSE 2
DayOfMonth(d) == IF d < 2 THEN 30 + d ELSE d - 1
MonthShort == <<<<"J", "a", "n">>, <<"F", "e", "b">>>>
Year == <<"2", "0", "2", "5">>
Decimal(n) ==
    IF n < 10 THEN <<DecDigits[n + 1]>>
    ELSE <<DecDigits[(n \div 10) + 1], DecDigits[(n % 10) + 1]>>
TwoDigits(n) == <<DecDigits[(n \div 10) + 1], DecDigits[(n % 10) + 1]>>

\* formatDate(timestamp): toLocaleDateString('en-US', {year: 'numeric',
\* month: 'short', day: 'numeric'}), "Jan 30, 2025"
formatDate(ts, tz) ==
    LET d == LocalDay(ts, tz) IN
    MonthShort[MonthOf(d)] \o <<" ">> \o Decimal(DayOfMonth(d))
        \o <<",", " ">> \o Year

\* new Date(timestamp).toLocaleDateString('en-US'), "1/30/2025"
toLocaleDateString(ts, tz) ==
    LET d == LocalDay(ts, tz) IN
    Decimal(MonthOf(d)) \o <<"/">> \o Decimal(DayOfMonth(d)) \o <<"/">>
        \o Year

\* new Date(timestamp).toDateString(), "Thu Jan 30 2025"
toDateString(ts, tz) ==
    LET d == LocalDay(ts, tz) IN
    Weekdays[d + 1] \o <<" ">> \o MonthShort[MonthOf(d)] \o <<" ">>
        \o TwoDigits(DayOfMonth(d)) \o <<" ">> \o Year

\* new Date(dateString): local midnight of the day the string names, in
\* any of the three forms, as ms from local midnight of day 0
DateParse(str) ==
    LET d == CHOOSE x \in 0..4 :
                 \E ts \in {x * 24 * 3600000} :
                     str \in {formatDate(ts, 0), toLocaleDateString(ts, 0),
                              toDateString(ts, 0)}
    IN  d * 24 * 3600000

\* String.prototype.localeCompare on names of ASCII letters: letters are
\* compared without case first, a shorter name sorts before its
\* extensions, and of two names that differ in case only the one with the
\* lower-case letter at the first difference sorts first
LowerLetters == <<"a", "b", "c", "d", "e", "f", "g", "h", "i", "j", "k",
                  "l", "m", "n", "o", "p", "q", "r", "s", "t", "u", "v",
                  "w", "x", "y", "z">>
UpperLetters == <<"A", "B", "C", "D", "E", "F", "G", "H", "I", "J", "K",
                  "L", "M", "N", "O", "P", "Q", "R", "S", "T", "U", "V",
                  "W", "X", "Y", "Z">>
LetterRank(ch) ==
    IF \E i \in 1..26 : LowerLetters[i] = ch \/ UpperLetters[i] = ch
    THEN CHOOSE i \in 1..26 : LowerLetters[i] = ch \/ UpperLetters[i] = ch
    ELSE 0
IsUpper(ch) == \E i \in 1..26 : UpperLetters[i] = ch
RECURSIVE ComparePrimary(_, _)
ComparePrimary(a, b) ==
    IF a = <<>> /\ b = <<>> THEN 0
    ELSE IF a = <<>> THEN -1
    ELSE IF b = <<>> THEN 1
    ELSE IF LetterRank(Head(a)) < LetterRank(Head(b)) THEN -1
    ELSE IF LetterRank(Head(a)) > LetterRank(Head(b)) THEN 1
    ELSE ComparePrimary(Tail(a), Tail(b))
RECURSIVE CompareCase(_, _)
CompareCase(a, b) ==
    IF a = <<>> \/ b = <<>> THEN 0
    ELSE IF IsUpper(Head(a)) /\ ~IsUpper(Head(b)) THEN 1
    ELSE IF ~IsUpper(Head(a)) /\ IsUpper(Head(b)) THEN -1
    ELSE CompareCase(Tail(a), Tail(b))
localeCompare(a, b) ==
    IF ComparePrimary(a, b) # 0 THEN ComparePrimary(a, b)
    ELSE CompareCase(a, b)

\* the forEach loop: groups is the object's entries in insertion order
\* (no key is an integer index, so Object.values keeps that order)
AddToGroup(groups, key, date, comment) ==
    IF \E i \in 1..Len(groups) : groups[i].key = key
    THEN LET i == CHOOSE j \in 1..Len(groups) : groups[j].key = key
         IN  [groups EXCEPT ![i].comments = Append(@, comment)]
    ELSE Append(groups, [key |-> key, date |-> date,
                         author |-> comment.author, stamp |-> comment.stamp,
                         comments |-> <<comment>>])

\* Array.prototype.sort is stable: insertion after every element that
\* does not compare greater.  cmp[<<a, b>>] is the comparator's result on
\* the groups at hand.
RECURSIVE InsertSorted(_, _, _)
InsertSorted(sorted, g, cmp) ==
    IF sorted = <<>> THEN <<g>>
    ELSE IF cmp[<<sorted[Len(sorted)], g>>] <= 0 THEN Append(sorted, g)
    ELSE Append(InsertSorted(SubSeq(sorted, 1, Len(sorted) - 1), g, cmp),
                sorted[Len(sorted)])
RECURSIVE SortFrom(_, _, _, _)
SortFrom(list, i, acc, cmp) ==
    IF i > Len(list) THEN acc
    ELSE SortFrom(list, i + 1, InsertSorted(acc, list[i], cmp), cmp)
sort(list, cmp) == SortFrom(list, 1, <<>>, cmp)
GroupPairs(list) == {<<list[i], list[j]>> : i, j \in 1..Len(list)}

\* utils/date-formater.js: key `${date}-${author}-${stamp}`
RECURSIVE utilsGroups(_, _, _, _)
utilsGroups(comments, i, groups, tz) ==
    IF i > Len(comments) THEN groups
    ELSE LET c == comments[i]
             date == formatDate(c.timestamp, tz)
             key == date \o <<"-">> \o c.author \o <<"-">> \o c.stamp
         IN  utilsGroups(comments, i + 1, AddToGroup(groups, key, date, c), tz)
utilsCompare(a, b) ==
    LET dateCompare == DateParse(b.date) - DateParse(a.date) IN
    IF dateCompare # 0 THEN dateCompare
    ELSE localeCompare(a.author, b.author)
utilsGroupComments(comments, tz) ==
    LET groups == utilsGroups(comments, 1, <<>>, tz) IN
    sort(groups, [p \in GroupPairs(groups) |-> utilsCompare(p[1], p[2])])

\* the card renderer (createProjectCard's file): key `${date}_${author}`,
\* Object.values(grouped) as it is
RECURSIVE cardGroups(_, _, _, _)
cardGroups(comments, i, groups, tz) ==
    IF i > Len(comments) THEN groups
    ELSE LET c == comments[i]
             date == toLocaleDateString(c.timestamp, tz)
             key == date \o <<"_">> \o c.author
         IN  cardGroups(comments, i + 1, AddToGroup(groups, key, date, c), tz)
cardGroupComments(comments, tz) == cardGroups(comments, 1, <<>>, tz)

\* the main module: key `${date}_${author}_${stamp}`, sorted by date only
RECURSIVE mainGroups(_, _, _, _)
mainGroups(comments, i, groups, tz) ==
    IF i > Len(comments) THEN groups
    ELSE LET c == comments[i]
             date == toDateString(c.timestamp, tz)
             key == date \o <<"_">> \o c.author \o <<"_">> \o c.stamp
         IN  mainGroups(comments, i + 1, AddToGroup(groups, key, date, c), tz)
mainCompare(a, b) == DateParse(b.date) - DateParse(a.date)
mainGroupComments(comments, tz) ==
    LET groups == mainGroups(comments, 1, <<>>, tz) IN
    sort(groups, [p \in GroupPairs(groups) |-> mainCompare(p[1], p[2])])

\* the lists grouped: comments as addComment stores them, by the two
\* sessions, with or without a nickname, at three instants; the hour
\* offsets of the viewers
Authors == {<<>>, <<"A", "l">>, <<"B", "o">>}
Stamps == {NewStamp(f) : f \in Fingerprints}
Instants == {10 * 3600000, 20 * 3600000, 60 * 3600000}
TimeZones == {0, 8}
StoredComments ==
    [author : Authors, stamp : Stamps, text : {<<"b">>}, timestamp : Instants]
CommentLists == UNION {[1..n -> StoredComments] : n \in 0..MaxComments}

GroupWith(name, out) ==
    /\ calc.fn = "none"
    /\ calc' = [calc EXCEPT !.fn = name, !.out = out]
    /\ UNCHANGED <<ls, lsFull, clock, loaded, enabled, stamp, nickname,
                   userDetails, tracker, fp, cards, sim, suite, flow, outcome, attempt, nflows,
                   nticks, nlog, api, shadow>>
GroupUtils == GroupWith("utils", utilsGroupComments(calc.arg, calc.tz))
GroupCard == GroupWith("card", cardGroupComments(calc.arg, calc.tz))
GroupMain == GroupWith("main", mainGroupComments(calc.arg, calc.tz))

InitGroup ==
    /\ InitState(FALSE, {<<77, 111, 122>>})
    /\ calc \in {[fn |-> "none", arg |-> c, out |-> <<>>, tz |-> z] :
                    c \in CommentLists, z \in TimeZones}
NextGroup == GroupUtils \/ GroupCard \/ GroupMain
SpecGroup == InitGroup /\ [][NextGroup]_vars
\* the grouping of utils/date-formater.js alone
SpecGroupUtils == InitGroup /\ [][GroupUtils]_vars

(***************************************************************************)
(* Properties of the activity log.                                         *)
(***************************************************************************)
\* the list a reader of `key` gets from an enabled instance
StoredIn(store, key) == OrList(getItem(TRUE, store, key)).items
Stored(key) == StoredIn(ls, key)

Min(a, b) == IF a < b THEN a ELSE b

\* C3: after n logActivity calls of a single writer the stored log holds
\* min(n, 1000) entries, and they are the most recent ones in the order
\* they were appended: the i-th stored entry is append number
\* n - length + i.
C3_LogCap ==
    LET logs == Stored(LogsKey) IN
    /\ Len(logs) = Min(nlog, LOG_LIMIT)
    /\ \A i \in 1..Len(logs) : logs[i].seq = nlog - Len(logs) + i

\* 1050 appends were made: 1000 entries are stored, the first is append 51
C3_Witness ==
    /\ nlog = 1050
    /\ Len(Stored(LogsKey)) = 1000
    /\ Stored(LogsKey)[1].seq = 51
    /\ Stored(LogsKey)[1000].seq = 1050

(***************************************************************************)
(* Properties of the FileStorage API.                                      *)
(***************************************************************************)
\* C8: a call on an instance whose probe failed changes nothing in the
\* store; its setItem returns false and its getItem returns the default of
\* the key, also right after a setItem on that key has failed and also
\* when the store holds a value for the key.
C8_DegradedMode ==
    [][(api'.n = api.n + 1 /\ ~api'.last.en
           /\ api'.last.op \in {"getItem", "setItem", "removeItem"})
       => /\ ls' = ls
          /\ api'.last.op = "setItem" => api'.last.ret = JsBool(FALSE)
          /\ api'.last.op = "getItem" =>
                 api'.last.ret = getDefaults(api'.last.key)]_vars

\* a disabled instance has failed to set a key whose default is the empty
\* list and then read the default, while the store would take writes again
C8_Witness ==
    /\ api.last.op = "getItem" /\ ~api.last.en
    /\ api.prev.op = "setItem" /\ ~api.prev.en
    /\ api.prev.tab = api.last.tab /\ api.prev.key = api.last.key
    /\ api.prev.ret = JsBool(FALSE)
    /\ api.last.key = LogsKey
    /\ api.last.ret = JsArr(<<>>)
    /\ ~lsFull

\* C9 as the specification states it: getItem("comments.<id>") for a
\* project without stored comments returns the empty list.
C9_ReturnsEmptyList ==
    (api.last.op = "getItem" /\ api.last.key = CommentsKey(999)
         /\ ~HasItem(ls, PKey(CommentsKey(999))))
    => api.last.ret = JsArr(<<>>)

\* C9: getItem("comments.<id>") for a project without stored comments
\* returns null, the fallback of getDefaults for a key outside its table;
\* the `|| []` of every reader turns it into the empty list.
C9_ReturnsNull ==
    (api.last.op = "getItem" /\ api.last.key = CommentsKey(999)
         /\ ~HasItem(ls, PKey(CommentsKey(999))))
    => /\ api.last.ret = JsNull
       /\ OrList(api.last.ret) = JsArr(<<>>)

\* an enabled instance has read the comments of a project that has none
C9_Witness ==
    /\ api.last.op = "getItem" /\ api.last.en
    /\ api.last.key = CommentsKey(999)
    /\ ~HasItem(ls, PKey(CommentsKey(999)))
    /\ api.last.ret = JsNull

\* what the map described by the calls so far holds for a key
MapValue(k) == IF k \in DOMAIN shadow THEN shadow[k] ELSE getDefaults(k)

\* C10: for an enabled instance getItem(k) is the value of the latest
\* setItem(k, v) that returned true, unless a removeItem(k) or a clear()
\* came after it, and the default of k otherwise; the getItem calls made
\* returned that value; setItem and removeItem on k leave what getItem
\* returns for every other key as it was.
C10_MapWithDefaults ==
    /\ [](\A k \in ApiKeys : getItem(TRUE, ls, k) = MapValue(k))
    /\ []((api.last.op = "getItem" /\ api.last.en)
             => api.last.ret = MapValue(api.last.key))
    /\ [][(api'.n = api.n + 1 /\ api'.last.op \in {"setItem", "removeItem"})
          => \A k \in ApiKeys \ {api'.last.key} :
                 getItem(TRUE, ls', k) = getItem(TRUE, ls, k)]_vars

\* a value was set, removed and read again: the read gives null for the
\* key without a default
C10_Witness ==
    /\ api.last.op = "getItem" /\ api.last.en
    /\ api.prev.op = "removeItem" /\ api.prev.en
    /\ api.prev.key = api.last.key
    /\ api.last.key = "test.storage.key"
    /\ api.last.ret = JsNull
    /\ \E k \in ApiKeys : k \in DOMAIN shadow /\ shadow[k] # getDefaults(k)

(***************************************************************************)
(* Properties of the rate limiter.                                         *)
(***************************************************************************)
Cooldown(cls) ==
    CASE cls = "comment" -> COMMENT_COOLDOWN
      [] cls = "rating" -> RATING_COOLDOWN
      [] cls = "project" -> PROJECT_COOLDOWN
      [] OTHER -> 0

\* C1 as the specification states it: the first attempt after a page load
\* is accepted; an attempt less than the cooldown after the last accepted
\* attempt of its class is rejected with a remaining wait in 1..cooldown;
\* an attempt at least the cooldown after it is accepted.
C1_RateLimit ==
    \A t \in Tabs :
        LET a == attempt[t] IN
        a.n > 0 =>
            /\ a.n = 1 => a.allowed
            /\ (a.prev >= 0 /\ a.now - a.prev < Cooldown(a.cls)) =>
                   /\ ~a.allowed
                   /\ a.remaining > 0
                   /\ a.remaining <= Cooldown(a.cls)
            /\ (a.prev >= 0 /\ a.now - a.prev >= Cooldown(a.cls)) =>
                   a.allowed

\* C2: a step in which an attempt is rejected by the rate limiter leaves
\* the whole store (comments, ratings, user projects, activity log, stored
\* nickname and user data), the three last-action times and the session's
\* nickname and details as they were.
C2_RejectedNoWrite ==
    [][\A t \in Tabs :
          (attempt'[t].n = attempt[t].n + 1 /\ ~attempt'[t].allowed)
          => /\ ls' = ls
             /\ tracker' = tracker
             /\ nickname' = nickname
             /\ userDetails' = userDetails]_vars

\* a second rating was attempted inside the cooldown and rejected
C2_Witness ==
    /\ attempt[1].n = 2
    /\ attempt[1].cls = "rating"
    /\ ~attempt[1].allowed
    /\ attempt[1].remaining > 0
    /\ Len(Stored(RatingsKey(1))) = 1

(***************************************************************************)
(* Properties of the comment lists.                                        *)
(***************************************************************************)
IsPrefix(a, b) == Len(a) <= Len(b) /\ SubSeq(b, 1, Len(a)) = a

C5_LastWriteWins ==
    [][\A s \in Slots :
          LET f == flow[s]
              g == flow'[s]
          IN  /\ (f.pc = "cmt_write" /\ g.pc = "log_read") =>
                     StoredIn(ls', CommentsKey(f.proj))
                         = Append(f.list.items, f.comment)
              /\ (f.pc = "rate_write" /\ g.pc = "log_read") =>
                     StoredIn(ls', RatingsKey(f.proj))
                         = Append(f.list.items, f.rating)
              /\ (f.pc = "log_write" /\ g.pc # "log_write") =>
                     StoredIn(ls', LogsKey)
                         = Append(f.logs.items, logEntry(TabOf(s), f))
              /\ (f.pc # "cmt_write" /\ g.pc = "cmt_write") =>
                     g.list.items = Stored(CommentsKey(g.proj))
              /\ (f.pc # "rate_write" /\ g.pc = "rate_write") =>
                     g.list.items = Stored(RatingsKey(g.proj))]_vars

\* both windows added a comment to the same project, both handlers ended
\* with success, and the stored list holds one comment
C5_Witness ==
    /\ \A s \in Slots :
          /\ flow[s].pc = "idle" /\ outcome[s] = "ok"
          /\ attempt[TabOf(s)].n = 1
          /\ attempt[TabOf(s)].cls = "comment"
          /\ attempt[TabOf(s)].allowed
    /\ Len(Stored(CommentsKey(1))) = 1

\* C6 as the specification states it: a handler that sets the nickname
\* N of its window's session gets N followed by # and the session's stamp
\* when the stored users list has N under another stamp, and the trimmed
\* N otherwise; the nickname of the other session stays.
C6_NicknameUnique ==
    [][\A t \in Tabs :
          (attempt'[t].n = attempt[t].n + 1 /\ nickname'[t] # nickname[t])
          => LET users == Stored("users.allUsers")
                 taken(N) == \E i \in 1..Len(users) :
                                 /\ users[i].nickname = N
                                 /\ users[i].stamp # stamp[t]
             IN  /\ \E n \in NickInputs :
                       /\ trim(n) # <<>>
                       /\ nickname'[t] =
                              IF taken(trim(n))
                              THEN trim(n) \o <<"#">> \o stamp[t]
                              ELSE trim(n)
                 /\ \A u \in Tabs \ {t} : nickname'[u] = nickname[u]]_vars

\* the stamp of the fingerprint "Moz": its hash is 77560, "1nug" in base 36
StampOfMoz == <<"1", "N", "U", "G">>

\* C7: with the same fingerprint in both windows, every session that has
\* a stamp has the stamp of the fingerprint, after every load and reload;
\* the stored stamp is that stamp, and a step never changes or removes a
\* stored stamp.
C7_StampDeterminism ==
    /\ [](fp[1] = fp[2] =>
             /\ \A t \in Tabs :
                   loaded[t] = "yes" =>
                       /\ stamp[t] = StampOfMoz
                       /\ stamp[t] = NewStamp(fp[t])
             /\ HasItem(ls, RawKey("userStamp")) =>
                   ls[RawKey("userStamp")] = RawText(StampOfMoz))
    /\ [][(fp[1] = fp[2] /\ HasItem(ls, RawKey("userStamp")))
          => /\ HasItem(ls', RawKey("userStamp"))
             /\ ls'[RawKey("userStamp")] = ls[RawKey("userStamp")]]_vars

\* both windows have the same fingerprint and a session, one of them after
\* a reload, and both sessions have the stamp of the fingerprint
C7_Witness ==
    /\ fp[1] = fp[2]
    /\ \A t \in Tabs : loaded[t] = "yes" /\ stamp[t] = StampOfMoz
    /\ \A s \in Slots : flow[s].pc = "idle"
    /\ nflows > 0
    /\ \A s \in Slots : outcome[s] = "none"
    /\ \A t \in Tabs : attempt[t].n = 0

(***************************************************************************)
(* Properties of the rating display.                                       *)
(***************************************************************************)
DigitValue(ch) == (CHOOSE d \in 1..10 : DecDigits[d] = ch) - 1
IsDecDigit(ch) == \E d \in 1..10 : DecDigits[d] = ch
Averaged == calc.fn \in {"getAverageRating", "createProjectCard"}

LoadFinished(s) == loaded[TabOf(s)] = "yes" /\ flow[s].pc = "idle"

PopulateEntries ==
    {i \in DOMAIN Stored(LogsKey) :
        Stored(LogsKey)[i].action = "system_populate_examples"}

\* C12: once a page load has finished, projects.allProjects holds the
\* built-in examples in seed order and the activity log holds exactly one
\* system_populate_examples entry; this is so after the first load and
\* after every later one (no second seeding, no second entry).
C12_SeededOnce ==
    \A s \in Slots :
        LoadFinished(s) =>
            /\ StoredIn(ls, SystemProjectsKey) = exampleProjects
            /\ Cardinality(PopulateEntries) = 1

(***************************************************************************)
(* Properties of the project form.                                         *)
(***************************************************************************)
\* loadProjects: [...systemProjects, ...userProjects]
ListedProjects(t, store) ==
    OrList(getItem(enabled[t], store, SystemProjectsKey)).items
        \o OrList(getItem(enabled[t], store, ProjectsKey)).items

\* the handler of an accepted submission has returned in window s
SubmissionOver(s) ==
    /\ flow[s].pc = "idle"
    /\ attempt[TabOf(s)].cls = "project"
    /\ attempt[TabOf(s)].allowed

\* C13: after initialization, when the handler of an accepted submission
\* has returned, projects.userProjects holds a list whose last element is
\* the new project (type "user", id the time of the submission, the
\* author and stamp of the session) and the listing is the system projects
\* followed by the user projects, the new one last; the step that stores
\* it appends it to the stored list and leaves the earlier ones as they
\* were.
C13_ProjectAppended ==
    /\ [](\A s \in Slots :
            SubmissionOver(s) =>
              LET t == TabOf(s)
                  v == getItem(enabled[t], ls, ProjectsKey)
              IN  /\ IsArray(v)
                  /\ Len(v.items) > 0
                  /\ LET q == v.items[Len(v.items)] IN
                       /\ q.type = "user"
                       /\ q.id >= attempt[t].now /\ q.id <= clock
                       /\ q.authorStamp = stamp[t]
                       /\ q.author = IF nickname[t] = NoNick THEN Anonymous
                                     ELSE nickname[t]
                  /\ ~loadProjectsThrows(t, ls)
                  /\ ListedProjects(t, ls) =
                       StoredIn(ls, SystemProjectsKey) \o v.items)
    /\ [][\A s \in Slots :
            (flow[s].pc = "prj_write" /\ flow'[s].pc # "prj_write") =>
              LET v == getItem(enabled[TabOf(s)], ls, ProjectsKey)
                  w == getItem(enabled[TabOf(s)], ls', ProjectsKey)
              IN  /\ IsArray(OrList(v)) /\ IsArray(w)
                  /\ w.items = Append(OrList(v).items, flow[s].project)]_vars

(***************************************************************************)
(* Properties of the activity log entries of the mutation flows.           *)
(***************************************************************************)
MutationActions == {"comment_added", "project_rated", "project_shared"}

EntriesOf(log, action) == {i \in DOMAIN log : log[i].action = action}

\* the log step of a mutation flow in window s: the stored log grows by
\* one entry, of the flow's action, with the session's stamp and the
\* flow's data, and the entity is in the store by then
LogsItsMutation(s) ==
    LET t == TabOf(s)
        f == flow[s]
        old == Stored(LogsKey)
        new == StoredIn(ls', LogsKey)
        e == new[Len(new)]
    IN  /\ Len(new) = Len(old) + 1
        /\ new = Append(old, e)
        /\ e.action = f.act
        /\ e.userStamp = stamp[t]
        /\ e.data = f.dat
        /\ f.act = "comment_added" =>
             LET c == Stored(CommentsKey(f.dat.projectId)) IN
             /\ Len(c) > 0
             /\ c[Len(c)].stamp = stamp[t]
             /\ Len(c[Len(c)].text) = f.dat.commentLength
        /\ f.act = "project_rated" =>
             LET r == Stored(RatingsKey(f.dat.projectId)) IN
             /\ Len(r) > 0
             /\ r[Len(r)] = f.dat.rating
             /\ f.dat.totalRatings = Len(r)
        /\ f.act = "project_shared" =>
             LET u == Stored(ProjectsKey) IN
             /\ Len(u) > 0
             /\ u[Len(u)].id = f.dat.projectId

\* C14: in one window whose store takes every write, each comment, rating
\* or project flow that reaches its log step appends exactly one entry of
\* its action with the session's stamp, after the entity is stored; when no
\* handler is running there are as many project_rated entries as stored
\* ratings and as many comment_added entries as comments stored or since
\* deleted, and the k-th project_rated entry of a project carries
\* totalRatings = k, the length of its ratings list right after the write.
C14_MutationLogged ==
    /\ [][\A s \in Slots :
            (/\ flow[s].pc = "log_write"
             /\ flow[s].act \in MutationActions
             /\ flow'[s].pc # "log_write") => LogsItsMutation(s)]_vars
    /\ []((\A s \in Slots : flow[s].pc = "idle") =>
            LET log == Stored(LogsKey) IN
            \A p \in Projects :
              LET rated == {i \in EntriesOf(log, "project_rated") :
                               log[i].data.projectId = p}
                  added == {i \in EntriesOf(log, "comment_added") :
                               log[i].data.projectId = p}
                  deleted == {i \in EntriesOf(log, "comment_deleted") :
                               log[i].data.projectId = p}
              IN  /\ Cardinality(rated) = Len(Stored(RatingsKey(p)))
                  /\ Cardinality(added) =
                       Len(Stored(CommentsKey(p))) + Cardinality(deleted)
                  /\ \A i \in rated :
                       log[i].data.totalRatings =
                         Cardinality({j \in rated : j <= i}))

\* a rating and a comment were made and logged, and no handler is running
C14_Witness ==
    /\ \A s \in Slots : flow[s].pc = "idle"
    /\ outcome[1] = "ok"
    /\ EntriesOf(Stored(LogsKey), "project_rated") # {}
    /\ EntriesOf(Stored(LogsKey), "comment_added") # {}
    /\ Len(Stored(RatingsKey(1))) = 1
    /\ Len(Stored(CommentsKey(1))) = 1

(***************************************************************************)
(* Properties of the flows over a store that refuses writes.               *)
(***************************************************************************)
DonePcs == {"rate_done", "cmt_done", "prj_done"}

\* the last step of a rating, comment or project handler in window s
Finishes(s) == flow[s].pc \in DonePcs /\ flow'[s].pc = "idle"

\* the logActivity call before the handler's last step did not store its
\* entry (one window: nothing else writes the log in between)
LogAppendFailed ==
    LET log == Stored(LogsKey) IN
    Len(log) = 0 \/ log[Len(log)].seq # nlog

\* C15: a handler whose setItem of the rating, comment or project returned
\* false does not end by reporting success: it ends by telling the user
\* of the failure.
C15_FailedWriteSurfaced ==
    [][\A s \in Slots :
         (Finishes(s) /\ ~flow[s].saved) => outcome'[s] = "failed"]_vars

\* C16: a logActivity call that cannot store its entry changes nothing in
\* the store, and a handler whose entity write succeeded and whose log
\* append failed ends by reporting success.
C16_LoggingBestEffort ==
    [][\A s \in Slots :
         /\ (/\ flow[s].pc = "log_write"
             /\ flow'[s].pc # "log_write"
             /\ ~setItemOk(enabled[TabOf(s)], lsFull)) => ls' = ls
         /\ (Finishes(s) /\ flow[s].saved /\ LogAppendFailed) =>
                (outcome'[s] = "ok" /\ ls' = ls)]_vars

(***************************************************************************)
(* Properties of the comment grouping.                                     *)
(***************************************************************************)
Grouped == calc.fn \in {"utils", "card", "main"}

\* the same calendar date for the viewer, the same author, the same stamp
SameGroupKey(a, b) ==
    /\ LocalDay(a.timestamp, calc.tz) = LocalDay(b.timestamp, calc.tz)
    /\ a.author = b.author
    /\ a.stamp = b.stamp
RECURSIVE CommentCount(_)
CommentCount(groups) ==
    IF groups = <<>> THEN 0
    ELSE Len(Head(groups).comments) + CommentCount(Tail(groups))
GroupDay(g) == LocalDay(g.comments[1].timestamp, calc.tz)

\* C17: the groups are a partition of the input list: every group holds
\* exactly the input comments of one calendar date, author and stamp, in
\* their input order, no two groups have the same date, author and stamp,
\* and every input comment is in a group.
C17_GroupingPartition ==
    Grouped =>
        LET in == calc.arg
            out == calc.out
        IN  /\ \A g \in 1..Len(out) :
                 /\ out[g].comments # <<>>
                 /\ LET first == out[g].comments[1] IN
                    out[g].comments =
                        SelectSeq(in, LAMBDA c : SameGroupKey(c, first))
            /\ \A g, h \in 1..Len(out) :
                 g # h => ~SameGroupKey(out[g].comments[1],
                                        out[h].comments[1])
            /\ CommentCount(out) = Len(in)

\* C18: of two groups the one of the later calendar date comes first, and
\* of two groups of the same date the one whose author sorts first.
C18_GroupOrder ==
    Grouped =>
        LET out == calc.out IN
        \A g, h \in 1..Len(out) :
            (g < h /\ out[g].comments # <<>> /\ out[h].comments # <<>>) =>
                \/ GroupDay(out[g]) > GroupDay(out[h])
                \/ /\ GroupDay(out[g]) = GroupDay(out[h])
                   /\ localeCompare(out[g].author, out[h].author) <= 0

(***************************************************************************)
(* Properties of the comment validation.                                   *)
(***************************************************************************)
\* C19: no stored comment, and no comment a handler is about to store, has
\* an empty text or a text longer than MAX_COMMENT_LENGTH; the step of
\* addComment that refuses a text leaves the store (the activity log
\* included), the rate-limit tracker and the suspended handlers as they
\* were.
C19_CommentValidated ==
    /\ [](/\ \A p \in Projects :
               \A i \in 1..Len(Stored(CommentsKey(p))) :
                   LET text == Stored(CommentsKey(p))[i].text IN
                   text # <<>> /\ Len(text) <= MAX_COMMENT_LENGTH
          /\ \A s \in Slots :
               flow[s].pc = "cmt_write" =>
                   /\ flow[s].comment.text # <<>>
                   /\ Len(flow[s].comment.text) <= MAX_COMMENT_LENGTH)
    /\ [][\A s \in Slots :
            (outcome'[s] = "refused" /\ outcome[s] # "refused") =>
                /\ ls' = ls
                /\ tracker' = tracker
                /\ flow' = flow
                /\ nickname' = nickname]_vars

\* a comment was stored, and a later attempt with a refused text left it
\* alone
C19_Witness ==
    /\ outcome[1] = "refused"
    /\ Len(Stored(CommentsKey(1))) = 1
    /\ tracker[1].lastCommentTime > 0

(***************************************************************************)
(* Properties of the cooldown between accepted flows.                      *)
(***************************************************************************)
\* C20: a flow that passes the rate-limit check consumes the cooldown of
\* its class at that moment: whatever happens to it afterwards, the next
\* flow of the class that passes the check in the same window does so at
\* least the cooldown after it.
C20_CooldownConsumed ==
    \A t \in Tabs :
        LET a == attempt[t] IN
        (a.n > 1 /\ a.allowed /\ a.prev >= 0) =>
            a.now - a.prev >= Cooldown(a.cls)

(***************************************************************************)
(* Properties of the card events.                                          *)
(***************************************************************************)
\* C21: once the log calls of a click have finished, the activity log
\* holds one card_collapsed entry for every collapseCard call made so far
\* and one card_expanded entry for every expandCard call.
C21_CardEventsLogged ==
    cards.jobs = <<>> =>
        /\ Cardinality(EntriesOf(Stored(LogsKey), "card_collapsed"))
               = cards.collapses
        /\ Cardinality(EntriesOf(Stored(LogsKey), "card_expanded"))
               = cards.expands

\* C22: every step leaves the activity log as it is or puts one entry at
\* its end, dropping entries from the front only beyond the cap of 1000;
\* in particular the seeding keeps the entries that were in the log.
C22_LogAppendOnly ==
    [][LET old == StoredIn(ls, LogsKey)
           new == StoredIn(ls', LogsKey)
       IN  \/ new = old
           \/ /\ new # <<>>
              /\ new = LogPush(old, new[Len(new)])]_vars

(***************************************************************************)
(* Properties of the collections under the flows of two windows.           *)
(***************************************************************************)
\* what a reader of a list key gets is a list
ReadsAsList(key) == IsArray(OrList(getItem(TRUE, ls, key)))
Occurrences(list, e) == Cardinality({i \in DOMAIN list : list[i] = e})
\* the windows one of whose flows of class cls has passed the rate-limit
\* check; without a reload and within the cooldown that is one flow each
Submitters(cls) == {t \in Tabs : attempt[t].last[cls] >= 0}
SubmittedComments ==
    [author : {sanitizeInput(trim(n)) : n \in NickInputs},
     stamp : {stamp[t] : t \in Tabs},
     text : {sanitizeInput(trim(x)) : x \in CommentTexts} \ {<<>>},
     timestamp : {clock}]
SubmittedProjects ==
    [id : {clock},
     author : {Anonymous} \cup {trim(n) : n \in NickInputs},
     authorStamp : {stamp[t] : t \in Tabs},
     timestamp : {clock},
     type : {"user"}]

\* C23: each of comments.1, ratings.1, projects.userProjects and the
\* activity log always reads as a list; every element is a whole entry of
\* the kind its flows submit; and no entry occurs more often than flows
\* have submitted it (log entries carry the number of their append, so no
\* two of them are equal).
C23_NoCorruption ==
    /\ \A key \in {CommentsKey(1), RatingsKey(1), ProjectsKey, LogsKey} :
           ReadsAsList(key)
    /\ LET comments == Stored(CommentsKey(1))
           ratings == Stored(RatingsKey(1))
           userProjects == Stored(ProjectsKey)
           logs == Stored(LogsKey)
       IN  /\ \A i \in DOMAIN comments :
                 /\ comments[i] \in SubmittedComments
                 /\ Occurrences(comments, comments[i])
                        <= Cardinality(Submitters("comment"))
           /\ \A i \in DOMAIN ratings :
                 /\ ratings[i] \in Ratings
                 /\ Occurrences(ratings, ratings[i])
                        <= Cardinality(Submitters("rating"))
           /\ \A i \in DOMAIN userProjects :
                 /\ userProjects[i] \in SubmittedProjects
                 /\ Occurrences(userProjects, userProjects[i])
                        <= Cardinality(Submitters("project"))
           /\ \A i \in DOMAIN logs :
                 /\ logs[i].action \in MutationActions
                        \cup {"session_initialized", "session_log_opened",
                              "user_details_saved"}
                 /\ logs[i].userStamp \in {stamp[t] : t \in Tabs}
                 /\ logs[i].seq \in 1..nlog
                 /\ \A j \in DOMAIN logs : logs[i].seq = logs[j].seq => i = j

\* both windows have submitted a project and both handlers have ended with
\* success; the stored list holds one or both of the projects
C23_Witness ==
    /\ \A s \in Slots : flow[s].pc = "idle" /\ outcome[s] = "ok"
    /\ Submitters("project") = Tabs
    /\ Len(Stored(ProjectsKey)) \in {1, 2}
    /\ Len(Stored(LogsKey)) >= 2

(***************************************************************************)
(* Project ids.  The two windows of SpecRace, with the clock: time passes  *)
(* between handlers, or not at all when two submissions fall into one      *)
(* millisecond.                                                            *)
(***************************************************************************)
NextRaceClock ==
    \/ NextRace
    \/ \E d \in Ticks : nticks < MaxTicks /\ TimePasses /\ Tick(d)

SpecRaceClock == RaceStart /\ [][NextRaceClock]_vars

\* loadProjects: [...systemProjects, ...userProjects]
allProjects(store) ==
    OrList(getItem(TRUE, store, SystemProjectsKey)).items
        \o OrList(getItem(TRUE, store, ProjectsKey)).items

\* C24: no two projects of the combined system + user collection have the
\* same id.
C24_ProjectIdsUnique ==
    LET all == allProjects(ls)
    IN  \A i, j \in DOMAIN all : all[i].id = all[j].id => i = j

(***************************************************************************)
(* The stamp of a browser.  browserData = navigator.userAgent +            *)
(* navigator.language + screen.width + screen.height, as UTF-16 code       *)
(* units: a Firefox on Linux with one of three languages and twelve        *)
(* screen sizes.                                                           *)
(***************************************************************************)
\* "Mozilla/5.0 (X11; Linux x86_64; rv:109.0) Gecko/20100101 Firefox/115.0"
userAgent ==
    <<
      77, 111, 122, 105, 108, 108, 97, 47, 53, 46, 48, 32, 40, 88,
      49, 49, 59, 32, 76, 105, 110, 117, 120, 32, 120, 56, 54, 95,
      54, 52, 59, 32, 114, 118, 58, 49, 48, 57, 46, 48, 41, 32,
      71, 101, 99, 107, 111, 47, 50, 48, 49, 48, 48, 49, 48, 49,
      32, 70, 105, 114, 101, 102, 111, 120, 47, 49, 49, 53, 46, 48>>
\* "en-US", "en-GB", "es"
Languages == {<<101, 110, 45, 85, 83>>, <<101, 110, 45, 71, 66>>, <<101, 115>>}
ScreenWidths == {1366, 1536, 1600, 1920}
ScreenHeights == {768, 900, 1080}

\* string + number: the decimal digits of the number
RECURSIVE NumberUnits(_)
NumberUnits(n) ==
    IF n < 10 THEN <<48 + n>> ELSE NumberUnits(n \div 10) \o <<48 + (n % 10)>>

browserData(language, width, height) ==
    userAgent \o language \o NumberUnits(width) \o NumberUnits(height)

BrowserPrints ==
    {browserData(l, w, h) :
        l \in Languages, w \in ScreenWidths, h \in ScreenHeights}

\* the first page load of a browser with one of the fingerprints
InitStamp == InitWith(FALSE, BrowserPrints) /\ fp[1] = fp[2]
NextStamp ==
    \/ loaded[1] = "no" /\ LoadPage(1)
    \/ LoadStamp(1)
    \/ InitFiles(1)
    \/ InitSet(1)
    \/ LogWrite(1)
SpecStamp == InitStamp /\ [][NextStamp]_vars

IsStamp(st) ==
    /\ Len(st) = 6
    /\ \A i \in 1..Len(st) : \E d \in 1..36 : st[i] = Upper36[d]

\* C25: the stamp of a session, and the stored stamp, has exactly 6
\* characters, each an uppercase base-36 digit.
C25_StampShape ==
    /\ \A t \in Tabs : stamp[t] # <<>> => IsStamp(stamp[t])
    /\ HasItem(ls, RawKey("userStamp")) =>
           \E st \in {NewStamp(p) : p \in BrowserPrints} :
               ls[RawKey("userStamp")] = RawText(st) /\ IsStamp(st)

(***************************************************************************)
(* Properties of the identity.                                             *)
(***************************************************************************)
\* the entries of users.allUsers
allUsers(store) ==
    LET v == OrList(getItem(TRUE, store, "users.allUsers"))
    IN  IF IsArray(v) THEN v.items ELSE <<>>
UserEntries(store, st) ==
    {i \in DOMAIN allUsers(store) : allUsers(store)[i].stamp = st}
HandlersOver(t) == \A s \in Slots : TabOf(s) = t => flow[s].pc = "idle"

\* C26: once a session has a nickname from setNickname or details from
\* saveUserDetails and its handlers are over, users.allUsers holds exactly
\* one entry with the session's stamp, with the session's nickname and its
\* merged details.
C26_UserTrackedOnce ==
    \A t \in Tabs :
        (/\ loaded[t] = "yes"
         /\ HandlersOver(t)
         /\ (nickname[t] # NoNick \/ userDetails[t] # <<>>))
        => /\ Cardinality(UserEntries(ls, stamp[t])) = 1
           /\ \A i \in UserEntries(ls, stamp[t]) :
                 /\ allUsers(ls)[i].nickname = nickname[t]
                 /\ allUsers(ls)[i].details = userDetails[t]

\* C27: a page reload of a window with a session leaves the identity as it
\* was: the UserSession constructed by the reload has the nickname and the
\* details the session before it had set and saved.
C27_IdentitySurvivesReload ==
    [][\A t \in Tabs :
           (loaded[t] = "yes" /\ LoadPage(t))
           => /\ nickname'[t] = nickname[t]
              /\ userDetails'[t] = userDetails[t]]_vars

\* C28: the comment a handler is about to append carries the stamp of its
\* session and, as author, the nickname of that session at that moment
\* (what setNickname returned and stored); every stored comment carries
\* the stamp of a session.
C28_CommentAttribution ==
    /\ \A s \in Slots :
           flow[s].pc = "cmt_write"
           => /\ flow[s].comment.stamp = stamp[TabOf(s)]
              /\ flow[s].comment.author = nickname[TabOf(s)]
    /\ \A p \in Projects :
           \A i \in DOMAIN Stored(CommentsKey(p)) :
               \E t \in Tabs : Stored(CommentsKey(p))[i].stamp = stamp[t]

(***************************************************************************)
(* The investment-bot page (pionexeval/script.js).  A timer is an interval *)
(* set by startSimulation and not yet cleared, with the progress its       *)
(* closure holds; simulationIntervals[id] is the handle stored for the     *)
(* option, 0 when the property is deleted.                                 *)
(***************************************************************************)
durationSteps == 100

NewHandle(st) ==
    CHOOSE h \in 1..(Cardinality(st.timers) + 1) :
        /\ \A t \in st.timers : t.handle # h
        /\ \A k \in 1..(h - 1) : \E t \in st.timers : t.handle = k

\* clearInterval(simulationIntervals[id]); delete simulationIntervals[id]
clearSimulation(st, o) ==
    [st EXCEPT !.timers = {t \in @ : t.handle # st.simulationIntervals[o]},
               !.simulationIntervals[o] = 0]

startSimulation(st, o) ==
    IF st.isRunning[o] THEN st
    ELSE [st EXCEPT
            !.isRunning[o] = TRUE,
            !.simulationIntervals[o] = NewHandle(st),
            !.timers = @ \cup {[handle |-> NewHandle(st), option |-> o,
                                currentProgress |-> st.progress[o]]}]

pauseSimulation(st, o) ==
    [clearSimulation(st, o) EXCEPT !.isRunning[o] = FALSE]

\* the callback of an interval
simulationTick(st, t) ==
    LET o == t.option
        currentProgress == t.currentProgress + (100 \div durationSteps)
    IN  IF st.isPaused THEN st
        ELSE IF currentProgress >= 100
        THEN [clearSimulation(st, o) EXCEPT !.isRunning[o] = FALSE,
                                            !.progress[o] = 100]
        ELSE [st EXCEPT
                !.progress[o] = currentProgress,
                !.timers = (@ \ {t}) \cup
                    {[t EXCEPT !.currentProgress = currentProgress]}]

\* forEach over the options in the order of the list
RECURSIVE StartEach(_, _, _)
StartEach(st, o, running) ==
    IF o \notin SimOptions THEN st
    ELSE StartEach(IF st.isRunning[o] = running THEN startSimulation(st, o)
                   ELSE st,
                   o + 1, running)

RECURSIVE ClearEach(_, _)
ClearEach(st, o) ==
    IF o \notin SimOptions THEN st
    ELSE ClearEach(IF st.simulationIntervals[o] # 0
                   THEN clearSimulation(st, o) ELSE st,
                   o + 1)

\* click on 'Pause All Simulations' / 'Resume All Simulations'
pauseAllClick(st) ==
    LET toggled == [st EXCEPT !.isPaused = ~st.isPaused]
    IN  IF ~toggled.isPaused
        THEN StartEach(ClearEach(toggled, 1), 1, TRUE)
        ELSE ClearEach(toggled, 1)

SimStep(next) ==
    /\ sim' = next
    /\ UNCHANGED <<ls, lsFull, clock, loaded, enabled, stamp, nickname,
                   userDetails, tracker, fp, flow, outcome, attempt, nflows,
                   nticks, nlog, api, shadow, calc, cards, suite>>

\* the buttons of a card: Start is disabled while the option runs, Pause
\* while it does not
StartClick(o) == ~sim.isRunning[o] /\ SimStep(startSimulation(sim, o))
PauseClick(o) == sim.isRunning[o] /\ SimStep(pauseSimulation(sim, o))
IntervalFires == \E t \in sim.timers : SimStep(simulationTick(sim, t))
PauseAllClick == SimStep(pauseAllClick(sim))
StartFilteredClick == SimStep(StartEach(sim, 1, FALSE))

NextSim ==
    \/ \E o \in SimOptions : StartClick(o)
    \/ \E o \in SimOptions : PauseClick(o)
    \/ IntervalFires
    \/ PauseAllClick
    \/ StartFilteredClick

SpecSim == Init /\ [][NextSim]_vars

ActiveIntervals(st, o) == {t \in st.timers : t.option = o}

\* C29: while the page is not paused an option has isRunning = true
\* exactly when it has one active interval, and the click that resumes
\* leaves every option that is running with an active interval.
C29_PauseResume ==
    /\ [](~sim.isPaused =>
             \A o \in SimOptions :
                 sim.isRunning[o]
                     <=> Cardinality(ActiveIntervals(sim, o)) = 1)
    /\ [][(sim.isPaused /\ PauseAllClick) =>
             \A o \in SimOptions :
                 sim.isRunning[o] => ActiveIntervals(sim', o) # {}]_vars

(***************************************************************************)
(* The trading suite (class PionexTradingSuite).  The methods are called   *)
(* on an object with the fields of the constructor.  A socket is           *)
(* "connecting", "open", "closing" (closed by the page or failed, its      *)
(* close event still to come) or "closed".                                 *)
(***************************************************************************)
MaxSockets == 4
maxErrors == 3

\* WebSocket.close()
closeSocket(st, id) ==
    IF st.sockets[id] \in {"connecting", "open"}
    THEN [st EXCEPT !.sockets[id] = "closing"]
    ELSE st

initializeWebSocket(st) ==
    LET closed == IF st.websocket # 0 THEN closeSocket(st, st.websocket)
                  ELSE st
    IN  [closed EXCEPT !.sockets = Append(@, "connecting"),
                       !.websocket = Len(st.sockets) + 1]

\* initializeWebSocket, then fetchInitialMarketData, which is not awaited
startLiveDataFetching(st) ==
    [initializeWebSocket(st) EXCEPT !.fetches = @ + 1, !.stopped = FALSE]

stopLiveDataFetching(st) ==
    IF st.websocket # 0
    THEN [closeSocket(st, st.websocket) EXCEPT !.websocket = 0]
    ELSE st

startMockDataFetching(st) == [st EXCEPT !.mockInterval = TRUE]
stopMockDataFetching(st) == [st EXCEPT !.mockInterval = FALSE]

startDataLoading(st) ==
    IF st.isDataLoading THEN st
    ELSE LET started == [st EXCEPT !.isPaused = FALSE,
                                   !.isDataLoading = TRUE,
                                   !.errorCount = 0,
                                   !.stopped = FALSE]
         IN  IF started.isLiveData THEN startLiveDataFetching(started)
             ELSE startMockDataFetching(started)

pauseDataLoading(st) ==
    stopMockDataFetching(stopLiveDataFetching(
        [st EXCEPT !.isPaused = TRUE, !.isDataLoading = FALSE,
                   !.stopped = TRUE]))

pauseAllOperations(st) ==
    stopMockDataFetching(stopLiveDataFetching(
        [st EXCEPT !.isPaused = TRUE, !.isAnalysisRunning = FALSE,
                   !.isDataLoading = FALSE, !.stopped = TRUE]))

resumeAllOperations(st) ==
    LET resumed == [st EXCEPT !.isPaused = FALSE]
    IN  IF resumed.isDataLoading THEN startDataLoading(resumed) ELSE resumed

handleError(st) ==
    LET counted == [st EXCEPT !.errorCount = @ + 1]
    IN  IF counted.errorCount >= maxErrors THEN pauseAllOperations(counted)
        ELSE counted

SuiteStep(next) ==
    /\ suite' = next
    /\ UNCHANGED <<ls, lsFull, clock, loaded, enabled, stamp, nickname,
                   userDetails, tracker, fp, flow, outcome, attempt, nflows,
                   nticks, nlog, api, shadow, calc, cards, sim>>

\* the user starts the system with live data
StartSystem ==
    /\ Len(suite.sockets) < MaxSockets
    /\ SuiteStep(startLiveDataFetching(suite))

\* click on the data-mode toggle
ToggleDataMode ==
    /\ suite.isPaused \in BOOLEAN
    /\ SuiteStep(IF suite.isPaused THEN startDataLoading(suite)
                 ELSE pauseDataLoading(suite))

\* click on pause-all
TogglePauseAll ==
    LET toggled == [suite EXCEPT !.isPaused = ~suite.isPaused]
    IN  /\ suite.isPaused \in BOOLEAN
        /\ SuiteStep(IF toggled.isPaused THEN pauseAllOperations(toggled)
                     ELSE resumeAllOperations(toggled))

ResetErrors ==
    /\ suite.errorCount > 0
    /\ SuiteStep([suite EXCEPT !.errorCount = 0])

\* websocket.onopen
SocketOpens ==
    \E id \in DOMAIN suite.sockets :
        /\ suite.sockets[id] = "connecting"
        /\ SuiteStep([suite EXCEPT !.sockets[id] = "open"])

\* websocket.onerror: handleError; the close event of the socket follows
SocketFails ==
    \E id \in DOMAIN suite.sockets :
        /\ suite.sockets[id] \in {"connecting", "open"}
        /\ SuiteStep(handleError([suite EXCEPT !.sockets[id] = "closing"]))

\* websocket.onclose: setTimeout(() => this.initializeWebSocket(), 3000)
SocketCloses ==
    \E id \in DOMAIN suite.sockets :
        /\ suite.sockets[id] \in {"open", "closing"}
        /\ SuiteStep([suite EXCEPT !.sockets[id] = "closed",
                                   !.timeouts = @ + 1])

\* the timeout set by onclose
ReconnectTimer ==
    /\ suite.timeouts > 0
    /\ Len(suite.sockets) < MaxSockets
    /\ SuiteStep(initializeWebSocket([suite EXCEPT !.timeouts = @ - 1]))

\* fetchInitialMarketData ends, or its catch calls handleError
FetchEnds(failed) ==
    /\ suite.fetches > 0
    /\ SuiteStep(IF failed
                 THEN handleError([suite EXCEPT !.fetches = @ - 1])
                 ELSE [suite EXCEPT !.fetches = @ - 1])

NextSuite ==
    \/ StartSystem
    \/ ToggleDataMode
    \/ TogglePauseAll
    \/ ResetErrors
    \/ SocketOpens
    \/ SocketFails
    \/ SocketCloses
    \/ ReconnectTimer
    \/ \E failed \in BOOLEAN : FetchEnds(failed)

SpecSuite == Init /\ [][NextSuite]_vars

====
